---- MODULE Spec2Model ----
(***************************************************************************)
(* Model of the backtesting engine of yuta-97/auto-trader:                 *)
(*   src/src/backtesting/Backtester.ts            (Backtester)             *)
(*   src/src/backtesting/BacktestDataProvider.ts  (candle store, collector)*)
(*   src/src/backtesting/backtest.ts, backtest-new.ts, scripts/run-backtest.sh *)
(*   src/unnamed/part_010                         (Candle, Strategy)       *)
(*   src/unnamed/part_012                         (BaseStrategy)           *)
(*   src/src/strategies/core/RsiBollinger.ts, TrendBreakout.ts             *)
(*                                                                         *)
(* Specifications: Spec (one runBacktest invocation), SpecTwoRuns (two     *)
(* invocations interleaved), SpecStore (saveCandles / loadCandles on the   *)
(* files), SpecCollect (collectHistoricalData), SpecDriver (the drivers),  *)
(* SpecWalk (the walk of runBacktest on RsiBollinger or TrendBreakout).    *)
(*                                                                         *)
(* One runBacktest invocation is modelled with one step per await point.   *)
(* The strategy is an arbitrary implementation of the Strategy interface:  *)
(* each of its three methods may resolve (true / false for the decision    *)
(* methods) or reject.  JavaScript numbers are modelled as exact rationals *)
(* <<numerator, denominator>> in lowest terms with a positive denominator. *)
(***************************************************************************)
EXTENDS Integers, Sequences, FiniteSets, TLC

\* ------------------------------------------------------------------ bounds

\* Number of candles after the first lookbackPeriod ones, i.e. the largest
\* number of loop iterations of a walk.
MaxSteps == 4

\* Largest number of candles of a sequence passed to saveCandles.
StoreSeqLen == 2

\* Largest number of candles the exchange holds for one fetchCandles request.
MaxFetched == 3

\* Largest number of execute calls of one runBacktest call of a driver.
MaxEntries == 2

\* Number of loop iterations of each of two concurrent runBacktest calls.
TwoRunSteps == 3

\* Largest number of loop iterations of a walk with a strategy of the
\* repository.
MaxWalk == 8

\* ------------------------------------------------------- program constants

\* Backtester.ts:167  const lookbackPeriod = 100
lookbackPeriod == 100

\* Backtester.ts:150  capital: number = 1000000
DefaultCapital == 1000000

\* BacktestDataProvider.ts:94  const batchSize = 200
batchSize == 200

\* config.ts:110-112  STRATEGY_CONFIG.TREND_BREAKOUT.tradingControl
cooldownPeriod == 5
maxDailyTrades == 3
consecutiveLossLimit == 2

\* ------------------------------------------------------ number arithmetic

Abs(x) == IF x < 0 THEN -x ELSE x

RECURSIVE GCD(_, _)
GCD(a, b) == IF b = 0 THEN a ELSE GCD(b, a % b)

\* The rational n/d in lowest terms, denominator positive.
Frac(n, d) ==
    LET g == GCD(Abs(n), Abs(d))
        s == IF d < 0 THEN -1 ELSE 1
    IN  << (s * n) \div g, (s * d) \div g >>

Num(k) == << k, 1 >>
Zero == << 0, 1 >>
One == << 1, 1 >>

RAdd(a, b) ==
    LET g == GCD(a[2], b[2])
    IN  Frac(a[1] * (b[2] \div g) + b[1] * (a[2] \div g), (a[2] \div g) * b[2])
RNeg(a) == << -a[1], a[2] >>
RSub(a, b) == RAdd(a, RNeg(b))
RMul(a, b) ==
    LET g1 == GCD(Abs(a[1]), b[2])
        g2 == GCD(Abs(b[1]), a[2])
    IN  Frac((a[1] \div g1) * (b[1] \div g2), (a[2] \div g2) * (b[2] \div g1))
\* b # 0 at every use: prices and the high-water mark are positive.
RDiv(a, b) == RMul(a, Frac(b[2], b[1]))
RLess(a, b) == RSub(a, b)[1] < 0
RLeq(a, b) == RSub(a, b)[1] <= 0
RAbs(a) == << Abs(a[1]), a[2] >>

\* ----------------------------------------------------------------- inputs

\* Close prices of the candles the walk visits.
Prices == {3, 5, 10}

\* commission: number = 0.0005 (Backtester.ts:151), as a rational.
DefaultCommission == Frac(5, 10000)

\* (capital, commission) arguments of runBacktest: the defaults, and a
\* commission-free run on a capital of 1000.
RunParams ==
    { [capital |-> DefaultCapital, commission |-> DefaultCommission],
      [capital |-> 1000, commission |-> Zero] }

\* Candle number k (0-based) of a stored sequence with close price c.
\* Timestamps ascend by one minute; open = high = low = close.
MkCandle(k, c) ==
    [timestamp |-> (k + 1) * 60000, open |-> c, high |-> c, low |-> c,
     close |-> c, volume |-> (k % 3) + 1]

\* A stored sequence of n candles: close price 5 on the first lookbackPeriod
\* candles, tail[j] on candle lookbackPeriod + j - 1.
MkCandles(n, tail) ==
    [k \in 1..n |->
        MkCandle(k - 1, IF k <= lookbackPeriod THEN 5
                        ELSE tail[k - lookbackPeriod])]

\* The stored sequences: empty (header row only), shorter than or equal to
\* the lookback window, and lookbackPeriod + n candles for n in 1..MaxSteps.
StoredSequences ==
    { MkCandles(n, << >>) : n \in {0, 1, lookbackPeriod} }
    \cup UNION { { MkCandles(lookbackPeriod + n, tail) : tail \in [1..n -> Prices] }
                 : n \in 1..MaxSteps }

\* ------------------------------------------------------------------ state

VARIABLES
    fileExists,     \* the CSV file of the (market, interval) key exists
    stored,         \* the candles its data rows parse to
    capital,        \* runBacktest argument
    commission,     \* runBacktest argument
    pc,             \* position of runBacktest
    candles,        \* const candles
    i,              \* loop index
    trades,         \* const trades: BacktestTrade[]
    currentTrade,   \* let currentTrade: BacktestTrade | null
    equity,         \* let equity
    highWaterMark,  \* let highWaterMark
    drawdown,       \* let drawdown
    inflight,       \* the strategy call being awaited
    calls,          \* the completed strategy calls, in order
    nOpened,        \* number of Trade objects handleEntry has created
    consoleError,   \* what loadCandleData logged with console.error
    error,          \* what runBacktest rejected with
    result          \* what runBacktest resolved with


\* null / undefined / nothing thrown, as records so that they compare with
\* trade and result records.
NoTrade == [null |-> TRUE]
NoCall == [op |-> "none"]
NoResult == [none |-> TRUE]
NoError == "none"

\* State of the other components, each used by a specification of its own.
VARIABLES
    files,          \* the data directory: file path -> file content
    lastSaved,      \* key -> the candles of the last saveCandles call on it
    storeCall       \* the last call on the store, with what it returned

storeVars == << files, lastSaved, storeCall >>

\* One collectHistoricalData invocation.
VARIABLES
    colArgs,        \* its (market, interval, days) arguments
    colPc,          \* "fetch": awaiting client.fetchCandles; "returned"
    batch,          \* the loop variable i
    to,             \* the local to
    allCandles,     \* the local allCandles
    fetchLog,       \* the fetchCandles calls that were answered
    colRet          \* the value returned

collectVars == << colArgs, colPc, batch, to, allCandles, fetchLog, colRet >>

\* One execution of a driver (backtest.ts or backtest-new.ts).
VARIABLES
    drvIn,          \* the driver, and the command line of backtest.ts
    drvPc,          \* "main", "collecting", "running" or "done"
    dataFile,       \* market -> "none", "old" (there before), "new" (collected)
    thenRun,        \* collectData was called by runBacktestStrategies
    instances,      \* the strategies array
    marketIdx,      \* position of the market loop (1-based)
    stratIdx,       \* position of the strategy loop (1-based)
    runLog,         \* the runBacktest calls that settled
    collectLog      \* the markets collectHistoricalData was called for

driverVars == << drvIn, drvPc, dataFile, thenRun, instances, marketIdx,
                 stratIdx, runLog, collectLog >>

\* Two runBacktest invocations on one Backtester, each with a strategy
\* instance of its own.
VARIABLES
    twoStored,      \* the stored candles both read
    twoParams,      \* << (capital, commission) of invocation 1, of 2 >>
    locals,         \* place -> the locals of runBacktest kept there
    runPc,          \* invocation -> where it stands
    answers,        \* invocation -> what its strategy answered so far
    runResult,      \* invocation -> the result it returned
    interleaved     \* a step was taken while the other invocation awaited

twoRunVars == << twoStored, twoParams, locals, runPc, answers, runResult,
                 interleaved >>

\* One runBacktest invocation on a strategy of the repository.
VARIABLES
    walk,           \* the locals of runBacktest: pc, i, currentTrade, ...
    strategy,       \* the fields of the strategy instance
    walkLog         \* the strategy calls that settled, in order

walkVars == << walk, strategy, walkLog >>

\* The locals of runBacktest and its outcome.
engineVars == << fileExists, stored, capital, commission, pc, candles, i,
                 trades, currentTrade, equity, highWaterMark, drawdown,
                 inflight, calls, nOpened, consoleError, error, result >>

\* Everything but engineVars.
auxVars == << storeVars, collectVars, driverVars, twoRunVars, walkVars >>

vars == << engineVars, auxVars >>

\* The candle store is not used.
StoreIdle == files = << >> /\ lastSaved = << >> /\ storeCall = NoCall

\* No collectHistoricalData invocation.
CollectIdle ==
    /\ colArgs = NoCall /\ colPc = "idle" /\ batch = 0 /\ to = 0
    /\ allCandles = << >> /\ fetchLog = << >> /\ colRet = NoResult

\* No driver is executing.
DriverIdle ==
    /\ drvIn = NoCall /\ drvPc = "idle" /\ dataFile = << >> /\ thenRun = FALSE
    /\ instances = << >> /\ marketIdx = 0 /\ stratIdx = 0
    /\ runLog = << >> /\ collectLog = << >>

\* No second invocation.
TwoRunIdle ==
    /\ twoStored = << >> /\ twoParams = << >> /\ locals = << >>
    /\ runPc = << >> /\ answers = << >> /\ runResult = << >>
    /\ interleaved = FALSE

\* No walk on a strategy of the repository.
WalkIdle == walk = NoCall /\ strategy = NoCall /\ walkLog = << >>

\* No component but the engine is used.
AuxIdle == StoreIdle /\ CollectIdle /\ DriverIdle /\ TwoRunIdle /\ WalkIdle

\* ------------------------------------------------------------- Candle Store

\* BacktestDataProvider.loadCandles: throws when the file does not exist,
\* otherwise returns one candle per data row (the header row is dropped, so
\* a file holding only the header row yields the empty sequence).
loadCandles(exists, rows) ==
    IF ~exists
    THEN [ok |-> FALSE, err |-> "FileNotFound", value |-> << >>]
    ELSE [ok |-> TRUE, err |-> NoError, value |-> rows]

\* The try block of Backtester.loadCandleData (lines 41-45).
loadCandleDataTry(exists, rows) ==
    LET r == loadCandles(exists, rows)
    IN  IF ~r.ok THEN r
        ELSE IF Len(r.value) = 0
        THEN [ok |-> FALSE, err |-> "NoCandleData", value |-> << >>]
        ELSE r

\* Backtester.loadCandleData: whatever the try block throws is logged and
\* replaced by one and the same new Error (lines 46-51).
loadCandleData(exists, rows) ==
    LET r == loadCandleDataTry(exists, rows)
    IN  IF ~r.ok
        THEN [ok |-> FALSE, err |-> "NoBacktestData", value |-> << >>,
              logged |-> r.err]
        ELSE [ok |-> TRUE, err |-> NoError, value |-> r.value,
              logged |-> NoError]

\* ------------------------------------------------------------------ engine

\* Array.prototype.slice(start, end) for 0 <= start: the elements with
\* 0-based index start .. min(end, length) - 1.
JsSlice(arr, start, end) ==
    LET hi == IF end < Len(arr) THEN end ELSE Len(arr)
    IN  IF hi <= start THEN << >> ELSE SubSeq(arr, start + 1, hi)

\* candles[k] with a 0-based k.
At(arr, k) == arr[k + 1]

\* lookbackCandles with the slice ending one candle later.
lookbackCandlesLookahead(k) == JsSlice(candles, k - lookbackPeriod, k + 2)

\* Backtester.ts:171  candles.slice(i - lookbackPeriod, i + 1)
lookbackCandles(k) == JsSlice(candles, k - lookbackPeriod, k + 1)

\* handleEntry stamping the trade with the time of the candle after the
\* current one (candles are one minute apart).
handleEntryNextCandle(candle) ==
    [entryTime |-> candle.timestamp + 60000, entryPrice |-> candle.close,
     side |-> "long"]

\* handleEntry opening a short position.
handleEntryShort(candle) ==
    [entryTime |-> candle.timestamp, entryPrice |-> candle.close,
     side |-> "short"]

\* Backtester.handleEntry
handleEntry(candle) ==
    [entryTime |-> candle.timestamp, entryPrice |-> candle.close,
     side |-> "long"]

\* handleExit charging the commission once instead of on entry and on exit.
handleExitSingleCommission(trade, candle, cap, comm) ==
    LET exitPrice == candle.close
        grossProfit ==
            RDiv(Num(exitPrice - trade.entryPrice), Num(trade.entryPrice))
        netProfit == RSub(grossProfit, comm)
    IN  [entryTime |-> trade.entryTime, entryPrice |-> trade.entryPrice,
         side |-> trade.side, exitTime |-> candle.timestamp,
         exitPrice |-> exitPrice, profitPercent |-> netProfit,
         profit |-> RMul(Num(cap), netProfit)]

\* handleExit sizing the profit on the running equity instead of on the
\* capital argument.
handleExitOnEquity(trade, candle, cap, comm) ==
    LET exitPrice == candle.close
        grossProfit ==
            RDiv(Num(exitPrice - trade.entryPrice), Num(trade.entryPrice))
        netProfit == RSub(grossProfit, RMul(comm, Num(2)))
    IN  [entryTime |-> trade.entryTime, entryPrice |-> trade.entryPrice,
         side |-> trade.side, exitTime |-> candle.timestamp,
         exitPrice |-> exitPrice, profitPercent |-> netProfit,
         profit |-> RMul(equity, netProfit)]

\* Backtester.handleExit: the trade with its exit fields set.
handleExit(trade, candle, cap, comm) ==
    LET exitPrice == candle.close
        grossProfit ==
            IF trade.side = "long"
            THEN RDiv(Num(exitPrice - trade.entryPrice), Num(trade.entryPrice))
            ELSE RDiv(Num(trade.entryPrice - exitPrice), Num(trade.entryPrice))
        netProfit == RSub(grossProfit, RMul(comm, Num(2)))
    IN  [entryTime |-> trade.entryTime, entryPrice |-> trade.entryPrice,
         side |-> trade.side, exitTime |-> candle.timestamp,
         exitPrice |-> exitPrice, profitPercent |-> netProfit,
         profit |-> RMul(Num(cap), netProfit)]

\* (t.profitPercent || 0) and (t.profit || 0)
ProfitPercentOr0(t) == IF "profitPercent" \in DOMAIN t THEN t.profitPercent ELSE Zero
ProfitOr0(t) == IF "profit" \in DOMAIN t THEN t.profit ELSE Zero

\* trades.filter(t => (t.profitPercent || 0) > 0)
Winners(ts) == SelectSeq(ts, LAMBDA t : RLess(Zero, ProfitPercentOr0(t)))
\* trades.filter(t => (t.profitPercent || 0) <= 0)
Losers(ts) == SelectSeq(ts, LAMBDA t : RLeq(ProfitPercentOr0(t), Zero))

\* ts.reduce((sum, t) => sum + (t.profit || 0), 0)
RECURSIVE SumProfit(_)
SumProfit(ts) ==
    IF ts = << >> THEN Zero
    ELSE RAdd(SumProfit(SubSeq(ts, 1, Len(ts) - 1)), ProfitOr0(ts[Len(ts)]))

\* calculateResults with the win rate taken over the losing trades and the
\* profit factor over the net profit.
calculateResultsSkewed(ts, market, maxDrawdown) ==
    LET winningTrades == Len(Winners(ts))
        totalProfit == SumProfit(ts)
        grossProfit == SumProfit(Winners(ts))
    IN  [market |-> market,
         totalTrades |-> Len(ts),
         winningTrades |-> winningTrades,
         losingTrades |-> Len(ts) - winningTrades,
         winRate |-> IF Len(ts) - winningTrades > 0
                     THEN Frac(winningTrades, Len(ts) - winningTrades) ELSE Zero,
         profitFactor |-> IF RLess(totalProfit, Zero)
                          THEN RDiv(grossProfit, RAbs(totalProfit)) ELSE Zero,
         netProfit |-> totalProfit,
         maxDrawdown |-> maxDrawdown,
         trades |-> ts]

\* Backtester.calculateResults
calculateResults(ts, market, maxDrawdown) ==
    LET winningTrades == Len(Winners(ts))
        totalProfit == SumProfit(ts)
        grossProfit == SumProfit(Winners(ts))
        grossLoss == RAbs(SumProfit(Losers(ts)))
    IN  [market |-> market,
         totalTrades |-> Len(ts),
         winningTrades |-> winningTrades,
         losingTrades |-> Len(ts) - winningTrades,
         winRate |-> IF Len(ts) > 0 THEN Frac(winningTrades, Len(ts)) ELSE Zero,
         profitFactor |-> IF RLess(Zero, grossLoss)
                          THEN RDiv(grossProfit, grossLoss) ELSE Zero,
         netProfit |-> totalProfit,
         maxDrawdown |-> maxDrawdown,
         trades |-> ts]

\* The entry branch taken whether or not a trade is open.
NoPositionAlways == TRUE

\* Backtester.ts:174  if (!currentTrade)
NoPosition == currentTrade = NoTrade

\* The exit branch never taken.
InPositionNever == FALSE

\* Backtester.ts:183  else if (currentTrade && !currentTrade.exitTime)
InPosition == currentTrade # NoTrade /\ "exitTime" \notin DOMAIN currentTrade

\* The entry taken whatever shouldEnter returned.
EnterTakenAlways(ret) == TRUE

\* Backtester.ts:176  if (shouldEnter)
EnterTaken(ret) == ret

\* The exit taken whatever shouldExit returned.
ExitTakenAlways(ret) == TRUE

\* Backtester.ts:189  if (shouldExit)
ExitTaken(ret) == ret

\* The ledger with a trade still open after the last candle closed at that
\* candle's price.
FinalLedgerForceClose ==
    IF currentTrade # NoTrade
    THEN Append(trades, handleExit(currentTrade, candles[Len(candles)],
                                   capital, commission))
    ELSE trades

\* Backtester.ts:214  the ledger handed to calculateResults
FinalLedger == trades

\* The equity update measuring every decline from the initial peak: the
\* high-water mark is never raised.
EquityUpdatePeakFixed(equity0, highWaterMark0, drawdown0, profit) ==
    LET eq == RAdd(equity0, profit)
        decline == RDiv(RSub(highWaterMark0, eq), highWaterMark0)
    IN  [equity |-> eq, highWaterMark |-> highWaterMark0,
         drawdown |-> IF RLess(drawdown0, decline) THEN decline ELSE drawdown0]

\* Backtester.ts:198-205: equity, highWaterMark and drawdown after a trade
\* that made `profit`.
EquityUpdate(equity0, highWaterMark0, drawdown0, profit) ==
    LET eq == RAdd(equity0, profit)
    IN  IF RLess(highWaterMark0, eq)
        THEN [equity |-> eq, highWaterMark |-> eq, drawdown |-> drawdown0]
        ELSE IF RLess(drawdown0, RDiv(RSub(highWaterMark0, eq), highWaterMark0))
        THEN [equity |-> eq, highWaterMark |-> highWaterMark0,
              drawdown |-> RDiv(RSub(highWaterMark0, eq), highWaterMark0)]
        ELSE [equity |-> eq, highWaterMark |-> highWaterMark0,
              drawdown |-> drawdown0]

\* The same on the locals of the modelled invocation.
EquityAfter(profit) == EquityUpdate(equity, highWaterMark, drawdown, profit)

Market == "KRW-ETH"

Awaiting == {"awaitEnter", "awaitExecute", "awaitExit"}

Init ==
    /\ fileExists \in BOOLEAN
    /\ stored \in (IF fileExists THEN StoredSequences ELSE { << >> })
    /\ \E p \in RunParams : capital = p.capital /\ commission = p.commission
    /\ pc = "start"
    /\ candles = << >>
    /\ i = 0
    /\ trades = << >>
    /\ currentTrade = NoTrade
    /\ equity = Zero
    /\ highWaterMark = Zero
    /\ drawdown = Zero
    /\ inflight = NoCall
    /\ calls = << >>
    /\ nOpened = 0
    /\ consoleError = NoError
    /\ error = NoError
    /\ result = NoResult
    /\ AuxIdle

\* runBacktest lines 154-167: load the candles, initialise the locals.
Load ==
    /\ pc = "start"
    /\ LET r == loadCandleData(fileExists, stored)
       IN  /\ consoleError' = r.logged
           /\ IF r.ok
              THEN /\ candles' = r.value
                   /\ equity' = Num(capital)
                   /\ highWaterMark' = Num(capital)
                   /\ drawdown' = Zero
                   /\ i' = lookbackPeriod
                   /\ pc' = "loop"
                   /\ error' = error
              ELSE /\ error' = r.err
                   /\ pc' = "rejected"
                   /\ UNCHANGED << candles, equity, highWaterMark, drawdown, i >>
    /\ UNCHANGED << fileExists, stored, capital, commission, trades,
                    currentTrade, inflight, calls, nOpened, result >>
    /\ UNCHANGED auxVars

\* One loop iteration up to its await (lines 169-175, 183-187): with no
\* position shouldEnter is called, with an open trade shouldExit.
Decide ==
    /\ pc = "loop"
    /\ i < Len(candles)
    /\ IF NoPosition
       THEN /\ inflight' = [op |-> "shouldEnter", index |-> i,
                            slice |-> lookbackCandles(i)]
            /\ pc' = "awaitEnter"
            /\ i' = i
       ELSE IF InPosition
       THEN /\ inflight' = [op |-> "shouldExit", index |-> i,
                            slice |-> lookbackCandles(i),
                            entryPrice |-> currentTrade.entryPrice]
            /\ pc' = "awaitExit"
            /\ i' = i
       ELSE /\ inflight' = inflight
            /\ pc' = "loop"
            /\ i' = i + 1
    /\ UNCHANGED << fileExists, stored, capital, commission, candles, trades,
                    currentTrade, equity, highWaterMark, drawdown, calls,
                    nOpened, consoleError, error, result >>
    /\ UNCHANGED auxVars

Completed(ret) == [op |-> inflight.op, index |-> inflight.index, ret |-> ret]

\* shouldEnter resolves (lines 175-178): true calls execute with the current
\* candle's volume and the same slice, false ends the iteration.
EnterReturns(ret) ==
    /\ pc = "awaitEnter"
    /\ calls' = Append(calls, Completed(IF ret THEN "true" ELSE "false"))
    /\ IF EnterTaken(ret)
       THEN /\ inflight' = [op |-> "execute", index |-> i,
                            slice |-> lookbackCandles(i),
                            market |-> Market,
                            volume |-> At(candles, i).volume]
            /\ pc' = "awaitExecute"
            /\ i' = i
       ELSE /\ inflight' = NoCall
            /\ pc' = "loop"
            /\ i' = i + 1
    /\ UNCHANGED << fileExists, stored, capital, commission, candles, trades,
                    currentTrade, equity, highWaterMark, drawdown, nOpened,
                    consoleError, error, result >>
    /\ UNCHANGED auxVars

\* execute resolves (line 179): the trade is opened at the current candle.
ExecuteReturns ==
    /\ pc = "awaitExecute"
    /\ calls' = Append(calls, Completed("void"))
    /\ currentTrade' = handleEntry(At(candles, i))
    /\ nOpened' = nOpened + 1
    /\ inflight' = NoCall
    /\ pc' = "loop"
    /\ i' = i + 1
    /\ UNCHANGED << fileExists, stored, capital, commission, candles, trades,
                    equity, highWaterMark, drawdown, consoleError, error,
                    result >>
    /\ UNCHANGED auxVars

\* shouldExit resolves (lines 189-209).
ExitReturns(ret) ==
    /\ pc = "awaitExit"
    /\ calls' = Append(calls, Completed(IF ret THEN "true" ELSE "false"))
    /\ IF ExitTaken(ret)
       THEN LET completedTrade ==
                    handleExit(currentTrade, At(candles, i), capital, commission)
                e == EquityAfter(ProfitOr0(completedTrade))
            IN  /\ equity' = e.equity
                /\ highWaterMark' = e.highWaterMark
                /\ drawdown' = e.drawdown
                /\ trades' = Append(trades, completedTrade)
                /\ currentTrade' = NoTrade
       ELSE UNCHANGED << equity, highWaterMark, drawdown, trades, currentTrade >>
    /\ inflight' = NoCall
    /\ pc' = "loop"
    /\ i' = i + 1
    /\ UNCHANGED << fileExists, stored, capital, commission, candles, nOpened,
                    consoleError, error, result >>
    /\ UNCHANGED auxVars

\* A rejection swallowed: the candle is skipped and the walk goes on.
StrategyRejectsSkipsCandle ==
    /\ pc \in Awaiting
    /\ calls' = Append(calls, Completed("reject"))
    /\ inflight' = NoCall
    /\ pc' = "loop"
    /\ i' = i + 1
    /\ UNCHANGED << fileExists, stored, capital, commission, candles,
                    trades, currentTrade, equity, highWaterMark, drawdown,
                    nOpened, consoleError, error, result >>
    /\ UNCHANGED auxVars

\* The awaited strategy call rejects: the await throws inside runBacktest,
\* which has no try block, so the returned promise rejects.
StrategyRejects ==
    /\ pc \in Awaiting
    /\ calls' = Append(calls, Completed("reject"))
    /\ inflight' = NoCall
    /\ error' = "StrategyRejection"
    /\ pc' = "rejected"
    /\ UNCHANGED << fileExists, stored, capital, commission, candles, i,
                    trades, currentTrade, equity, highWaterMark, drawdown,
                    nOpened, consoleError, result >>
    /\ UNCHANGED auxVars

\* The loop is over (line 214).
Return ==
    /\ pc = "loop"
    /\ ~(i < Len(candles))
    /\ result' = calculateResults(FinalLedger, Market, drawdown)
    /\ pc' = "returned"
    /\ UNCHANGED << fileExists, stored, capital, commission, candles, i,
                    trades, currentTrade, equity, highWaterMark, drawdown,
                    inflight, calls, nOpened, consoleError, error >>
    /\ UNCHANGED auxVars

Next ==
    \/ Load
    \/ Decide
    \/ \E ret \in BOOLEAN : EnterReturns(ret)
    \/ ExecuteReturns
    \/ \E ret \in BOOLEAN : ExitReturns(ret)
    \/ StrategyRejects
    \/ Return

Spec == Init /\ [][Next]_vars

\* ------------------------------------------------------ JavaScript strings

\* A string is the sequence of its characters.
DigitChars == << "0", "1", "2", "3", "4", "5", "6", "7", "8", "9" >>

IsDigit(c) == \E d \in 1..10 : DigitChars[d] = c

DigitValue(c) == (CHOOSE d \in 1..10 : DigitChars[d] = c) - 1

\* White space as String.prototype.trim, parseInt and parseFloat skip it.
IsWhiteSpace(c) == c \in {" ", "\n", "\t", "\r"}

RECURSIVE TrimStart(_)
TrimStart(s) ==
    IF s # << >> /\ IsWhiteSpace(Head(s)) THEN TrimStart(Tail(s)) ELSE s

RECURSIVE TrimEnd(_)
TrimEnd(s) ==
    IF s # << >> /\ IsWhiteSpace(s[Len(s)])
    THEN TrimEnd(SubSeq(s, 1, Len(s) - 1))
    ELSE s

\* String.prototype.trim
Trim(s) == TrimEnd(TrimStart(s))

\* The position (1-based) of the first occurrence of the character c in s
\* at or after position k, 0 when there is none.
RECURSIVE IndexOf(_, _, _)
IndexOf(s, c, k) ==
    IF k > Len(s) THEN 0
    ELSE IF s[k] = c THEN k
    ELSE IndexOf(s, c, k + 1)

\* String.prototype.split with a one-character separator: the pieces
\* between the separators, so that "" splits into the one piece "".
RECURSIVE Split(_, _)
Split(s, sep) ==
    LET k == IndexOf(s, sep, 1)
    IN  IF k = 0 THEN << s >>
        ELSE << SubSeq(s, 1, k - 1) >> \o Split(SubSeq(s, k + 1, Len(s)), sep)

\* Array.prototype.join
RECURSIVE Join(_, _)
Join(parts, sep) ==
    IF parts = << >> THEN << >>
    ELSE IF Len(parts) = 1 THEN parts[1]
    ELSE parts[1] \o << sep >> \o Join(Tail(parts), sep)

\* String.prototype.replace(pattern, replacement) with string arguments of
\* one character: only the FIRST occurrence is replaced.
Replace(s, pattern, replacement) ==
    LET k == IndexOf(s, pattern, 1)
    IN  IF k = 0 THEN s ELSE [s EXCEPT ![k] = replacement]

\* ------------------------------------------------------ numbers in a file

\* A number of a candle that is written to or read from a file is a decimal
\* m * 10^(-e) with no trailing zero in its fraction, or NaN.
RECURSIVE Dec(_, _)
Dec(m, e) ==
    IF e > 0 /\ m % 10 = 0 THEN Dec(m \div 10, e - 1) ELSE [m |-> m, e |-> e]

NaN == [nan |-> TRUE]

RECURSIVE Pow10(_)
Pow10(e) == IF e = 0 THEN 1 ELSE 10 * Pow10(e - 1)

RECURSIVE NatToString(_)
NatToString(n) ==
    IF n < 10 THEN << DigitChars[n + 1] >>
    ELSE NatToString(n \div 10) \o << DigitChars[(n % 10) + 1] >>

\* Number::toString as the template literals of saveCandles apply it: sign,
\* integer digits and, for a fraction, a point and the fraction's digits.
\* (Exponent notation starts at 1e21 and below 1e-6, outside the inputs.)
NumberToString(x) ==
    IF x = NaN THEN << "N", "a", "N" >>
    ELSE LET a    == Abs(x.m)
             fd   == NatToString(a % Pow10(x.e))
             pad  == [k \in 1..(x.e - Len(fd)) |-> "0"]
         IN  (IF x.m < 0 THEN << "-" >> ELSE << >>)
             \o NatToString(a \div Pow10(x.e))
             \o (IF x.e = 0 THEN << >> ELSE << "." >> \o pad \o fd)

\* The longest prefix of s made of decimal digits.
RECURSIVE DigitPrefix(_)
DigitPrefix(s) ==
    IF s # << >> /\ IsDigit(Head(s))
    THEN << Head(s) >> \o DigitPrefix(Tail(s))
    ELSE << >>

RECURSIVE DigitsValue(_)
DigitsValue(d) ==
    IF d = << >> THEN 0
    ELSE 10 * DigitsValue(SubSeq(d, 1, Len(d) - 1)) + DigitValue(d[Len(d)])

\* s without its sign character, after the leading white space.
Unsigned(s) ==
    LET t == TrimStart(s)
    IN  IF t # << >> /\ Head(t) \in {"-", "+"} THEN Tail(t) ELSE t

IsNegative(s) == TrimStart(s) # << >> /\ Head(TrimStart(s)) = "-"

\* parseInt(s): the integer the longest prefix of the form
\* [white space] [sign] digits denotes; NaN when there is no digit.
parseInt(s) ==
    LET ip == DigitPrefix(Unsigned(s))
    IN  IF ip = << >> THEN NaN
        ELSE Dec(IF IsNegative(s) THEN -DigitsValue(ip) ELSE DigitsValue(ip), 0)

\* parseFloat(s): the decimal the longest prefix of the form
\* [white space] [sign] digits [. digits] denotes; whatever follows is
\* ignored, and the result is NaN when the prefix holds no digit.
parseFloat(s) ==
    LET u   == Unsigned(s)
        ip  == DigitPrefix(u)
        r   == SubSeq(u, Len(ip) + 1, Len(u))
        fp  == IF r # << >> /\ Head(r) = "." THEN DigitPrefix(Tail(r))
               ELSE << >>
        mag == DigitsValue(ip \o fp)
    IN  IF ip = << >> /\ fp = << >> THEN NaN
        ELSE Dec(IF IsNegative(s) THEN -mag ELSE mag, Len(fp))

\* -------------------------------------------------- candle store, the files

\* Markets of MARKETS (part_009:6-12) and intervals of CANDLE_INTERVAL
\* (part_009:23-31), the identifiers every caller of the store passes.
MARKETS ==
    { << "K", "R", "W", "-", "B", "T", "C" >>, << "K", "R", "W", "-", "E", "T", "H" >>, << "K", "R", "W", "-", "S", "O", "L" >>, << "K", "R", "W", "-", "X", "R", "P" >>, << "K", "R", "W", "-", "U", "S", "D", "T" >> }

CANDLE_INTERVAL == {1, 3, 5, 15, 30, 60, 240}

\* A file path is the sequence of its characters below the data directory.
\* One path shared by every key.
getCandleFilePathShared(market, interval) == << "c", "a", "n", "d", "l", "e", "s", ".", "c", "s", "v" >>

\* BacktestDataProvider.getCandleFilePath
getCandleFilePath(market, interval) ==
    Replace(market, "-", "_") \o << "_" >> \o NatToString(interval)
        \o << "m", "i", "n", ".", "c", "s", "v" >>

headers == << "t", "i", "m", "e", "s", "t", "a", "m", "p", ",", "o", "p", "e", "n", ",", "h", "i", "g", "h", ",", "l", "o", "w", ",", "c", "l", "o", "s", "e", ",", "v", "o", "l", "u", "m", "e", "\n" >>

\* candle.volume || 0 : undefined, NaN and 0 are falsy.
VolumeOr0(candle) ==
    IF "volume" \in DOMAIN candle /\ candle.volume # NaN
       /\ candle.volume # Dec(0, 0)
    THEN candle.volume
    ELSE Dec(0, 0)

\* A row whose volume field is the candle's own, whatever it is.
CandleRowKeepsVolume(candle) ==
    Join(<< NumberToString(candle.timestamp), NumberToString(candle.open),
            NumberToString(candle.high), NumberToString(candle.low),
            NumberToString(candle.close),
            IF "volume" \in DOMAIN candle THEN NumberToString(candle.volume)
            ELSE << "u", "n", "d", "e", "f", "i", "n", "e", "d" >> >>, ",")

\* The row saveCandles writes for a candle (lines 35-42).
CandleRow(candle) ==
    Join(<< NumberToString(candle.timestamp), NumberToString(candle.open),
            NumberToString(candle.high), NumberToString(candle.low),
            NumberToString(candle.close),
            NumberToString(VolumeOr0(candle)) >>, ",")

\* The content saveCandles writes.
CsvContent(cs) == headers \o Join([k \in 1..Len(cs) |-> CandleRow(cs[k])], "\n")

\* BacktestDataProvider.saveCandles: the file of the key is created or
\* overwritten, every other file is left alone.
saveCandles(fs, market, interval, cs) ==
    (getCandleFilePath(market, interval) :> CsvContent(cs)) @@ fs

\* Element k (1-based) of a destructured array: undefined, which the
\* parsers read as the string "undefined", when the array is shorter.
Field(fields, k) == IF k <= Len(fields) THEN fields[k] ELSE << "u", "n", "d", "e", "f", "i", "n", "e", "d" >>

\* The candle a data row is mapped to (lines 66-75); no field is validated.
ParseRow(line) ==
    LET f == Split(line, ",")
    IN  [timestamp |-> parseInt(Field(f, 1)),
         open      |-> parseFloat(Field(f, 2)),
         high      |-> parseFloat(Field(f, 3)),
         low       |-> parseFloat(Field(f, 4)),
         close     |-> parseFloat(Field(f, 5)),
         volume    |-> parseFloat(Field(f, 6))]

\* The candles of a file's content (lines 60-76): the lines of the trimmed
\* content but the first, each mapped to a candle.
ParseContent(content) ==
    LET dataLines == Tail(Split(Trim(content), "\n"))
    IN  [k \in 1..Len(dataLines) |-> ParseRow(dataLines[k])]

\* BacktestDataProvider.loadCandles on the files fs.
loadCandlesOf(fs, market, interval) ==
    LET p == getCandleFilePath(market, interval)
    IN  loadCandles(p \in DOMAIN fs,
                    IF p \in DOMAIN fs THEN ParseContent(fs[p]) ELSE << >>)

\* ------------------------------------------- candle store, the state machine

\* No runBacktest is in progress.
EngineIdle ==
    /\ fileExists = FALSE /\ stored = << >>
    /\ capital = 0 /\ commission = Zero
    /\ pc = "idle"
    /\ candles = << >> /\ i = 0
    /\ trades = << >> /\ currentTrade = NoTrade
    /\ equity = << >> /\ highWaterMark = Zero /\ drawdown = Zero
    /\ inflight = NoCall /\ calls = << >> /\ nOpened = 0
    /\ consoleError = NoError /\ error = NoError /\ result = NoResult

\* Candle k (1-based) of a sequence passed to saveCandles, in two shapes:
\* integer prices and no volume, or decimal prices and a volume.
StoreCandle(k, shape) ==
    IF shape = "integer"
    THEN [timestamp |-> Dec(k * 60000, 0), open |-> Dec(5, 0),
          high |-> Dec(10, 0), low |-> Dec(3, 0), close |-> Dec(5, 0)]
    ELSE [timestamp |-> Dec(k * 60000, 0), open |-> Dec(25, 1),
          high |-> Dec(1005, 2), low |-> Dec(5, 1), close |-> Dec(3, 0),
          volume |-> Dec(15, 1)]

OtherShape(shape) == IF shape = "integer" THEN "decimal" ELSE "integer"

\* The valid candle sequences passed to saveCandles: none, one or
\* StoreSeqLen candles of alternating shapes, timestamps ascending.
SaveInputs ==
    { [k \in 1..n |-> StoreCandle(k, IF k % 2 = 1 THEN first
                                     ELSE OtherShape(first))]
      : n \in {0, 1, StoreSeqLen}, first \in {"integer", "decimal"} }

\* The keys in use: two markets, two intervals.
StoreKeys ==
    { [market |-> << "K", "R", "W", "-", "B", "T", "C" >>, interval |-> 1],
      [market |-> << "K", "R", "W", "-", "B", "T", "C" >>, interval |-> 15],
      [market |-> << "K", "R", "W", "-", "E", "T", "H" >>, interval |-> 1] }

\* Files found in the data directory that no saveCandles call of this
\* execution wrote: a row that is no candle at all, and a row whose fields
\* parse but whose high is below its low.
UnparsableFile == headers \o << "a", "b", "c", ",", "1", ",", "2", "\n" >>

HighBelowLowFile == headers \o << "6", "0", "0", "0", "0", ",", "5", ",", "3", ",", "5", ",", "5", ",", "1" >>

InitialFiles ==
    { << >>,
      getCandleFilePath(<< "K", "R", "W", "-", "B", "T", "C" >>, 1) :> UnparsableFile,
      getCandleFilePath(<< "K", "R", "W", "-", "B", "T", "C" >>, 1) :> HighBelowLowFile }

NoSave == [saved |-> FALSE]

StoreInit ==
    /\ files \in InitialFiles
    /\ lastSaved = [key \in StoreKeys |-> NoSave]
    /\ storeCall = NoCall
    /\ EngineIdle /\ CollectIdle /\ DriverIdle /\ TwoRunIdle /\ WalkIdle

\* saveCandles(key.market, key.interval, cs) is called and returns.
SaveCandles(key, cs) ==
    /\ files' = saveCandles(files, key.market, key.interval, cs)
    /\ lastSaved' = [lastSaved EXCEPT ![key] = [saved |-> TRUE, candles |-> cs]]
    /\ storeCall' = [op |-> "saveCandles", key |-> key, candles |-> cs]
    /\ UNCHANGED << engineVars, collectVars, driverVars, twoRunVars, walkVars >>

\* loadCandles(key.market, key.interval) is called and returns or throws.
LoadCandles(key) ==
    /\ storeCall' = [op |-> "loadCandles", key |-> key,
                     ret |-> loadCandlesOf(files, key.market, key.interval),
                     saved |-> lastSaved[key]]
    /\ UNCHANGED << files, lastSaved >>
    /\ UNCHANGED << engineVars, collectVars, driverVars, twoRunVars, walkVars >>

StoreNext ==
    \/ \E key \in StoreKeys, cs \in SaveInputs : SaveCandles(key, cs)
    \/ \E key \in StoreKeys : LoadCandles(key)

SpecStore == StoreInit /\ [][StoreNext]_vars

\* ------------------------------------------------- collectHistoricalData

\* (market, interval, days) arguments: one, two and three batches.
CollectInputs ==
    { [market |-> m, interval |-> 240, days |-> d]
      : m \in { << "K", "R", "W", "-", "B", "T", "C" >>,
                << "K", "R", "W", "-", "E", "T", "H" >> },
        d \in {1, 34, 67} }

\* new Date().getTime() when the collection starts.
Now == 100 * 240 * 60000

\* totalCandles (lines 89-90)
totalCandles(args) == args.days * ((24 * 60) \div args.interval)

\* batchCount = Math.ceil(totalCandles / batchSize) (line 95)
batchCount(args) == (totalCandles(args) + batchSize - 1) \div batchSize

\* count of batch k (line 105)
RequestCount(args, k) ==
    IF totalCandles(args) - k * batchSize < batchSize
    THEN totalCandles(args) - k * batchSize
    ELSE batchSize

\* What the exchange answers with: the n candles before the time before,
\* newest first.  candle_date_time_utc is given as the epoch-ms it denotes.
FetchedItems(before, interval, n) ==
    [k \in 1..n |->
        [candle_date_time_utc |-> before - k * interval * 60000,
         opening_price |-> Dec(25, 1), high_price |-> Dec(1005, 2),
         low_price |-> Dec(5, 1), trade_price |-> Dec(3, 0),
         candle_acc_trade_volume |-> Dec(15, 1)]]

\* The Candle an answered item is converted to (lines 125-132).
ItemToCandle(item) ==
    [timestamp |-> Dec(item.candle_date_time_utc, 0),
     open   |-> parseFloat(NumberToString(item.opening_price)),
     high   |-> parseFloat(NumberToString(item.high_price)),
     low    |-> parseFloat(NumberToString(item.low_price)),
     close  |-> parseFloat(NumberToString(item.trade_price)),
     volume |-> parseFloat(NumberToString(item.candle_acc_trade_volume))]

\* allCandles.sort((a, b) => a.timestamp - b.timestamp): ascending and stable.
SortByTimestamp(cs) ==
    LET n    == Len(cs)
        rank == [j \in 1..n |->
                    Cardinality({ m \in 1..n :
                        (cs[m].timestamp.m < cs[j].timestamp.m)
                        \/ (cs[m].timestamp.m = cs[j].timestamp.m /\ m < j) }) + 1]
    IN  [k \in 1..n |-> cs[CHOOSE j \in 1..n : rank[j] = k]]

CollectInit ==
    /\ colArgs \in CollectInputs
    /\ colPc = "fetch"
    /\ batch = 0
    /\ to = Now
    /\ allCandles = << >>
    /\ fetchLog = << >>
    /\ colRet = NoResult
    /\ files \in { << >>,
                   getCandleFilePath(<< "K", "R", "W", "-", "B", "T", "C" >>, 240) :> CsvContent(<< >>) }
    /\ lastSaved = [key \in { [market |-> a.market, interval |-> a.interval]
                              : a \in CollectInputs } |-> NoSave]
    /\ storeCall = NoCall
    /\ EngineIdle /\ DriverIdle /\ TwoRunIdle /\ WalkIdle

\* The statements after the loop (lines 145-156): sort, save, return.
CollectEnds(gathered) ==
    LET sorted == SortByTimestamp(gathered)
        key    == [market |-> colArgs.market, interval |-> colArgs.interval]
    IN  /\ colPc' = "returned"
        /\ allCandles' = sorted
        /\ files' = saveCandles(files, colArgs.market, colArgs.interval, sorted)
        /\ lastSaved' = [lastSaved EXCEPT
                            ![key] = [saved |-> TRUE, candles |-> sorted]]
        /\ storeCall' = [op |-> "saveCandles", key |-> key, candles |-> sorted]
        /\ colRet' = sorted
        /\ UNCHANGED << batch, to >>

\* The time the records of an answer lie before: the exchange takes the
\* `to` of the request as exclusive (records strictly before it) or as
\* inclusive (the newest record is the one at `to`).
AnswerBefore(requested, interval, inclusive) ==
    IF inclusive THEN requested + interval * 60000 ELSE requested

\* client.fetchCandles resolves with n items; the loop body runs on, through
\* the 300 ms delay, to the next fetchCandles call or to the return.
FetchResolves(n, inclusive) ==
    /\ colPc = "fetch"
    /\ n <= RequestCount(colArgs, batch)
    /\ fetchLog' = Append(fetchLog, [count |-> RequestCount(colArgs, batch),
                                     to |-> to, rejected |-> FALSE,
                                     got |-> n])
    /\ LET data    == FetchedItems(AnswerBefore(to, colArgs.interval, inclusive),
                                   colArgs.interval, n)
           converted == [k \in 1..n |-> ItemToCandle(data[k])]
       IN  IF n = 0
           THEN CollectEnds(allCandles)
           ELSE IF batch + 1 < batchCount(colArgs)
           THEN /\ allCandles' = converted \o allCandles
                /\ to' = data[n].candle_date_time_utc
                /\ batch' = batch + 1
                /\ UNCHANGED << colPc, colRet, storeVars >>
           ELSE CollectEnds(converted \o allCandles)
    /\ UNCHANGED << colArgs, engineVars, driverVars, twoRunVars, walkVars >>

\* A rejected fetchCandles call answered by asking for the same batch again.
FetchRejectsRetries ==
    /\ colPc = "fetch"
    /\ fetchLog' = Append(fetchLog, [count |-> RequestCount(colArgs, batch),
                                     to |-> to, rejected |-> TRUE,
                                     got |-> 0])
    /\ UNCHANGED << colArgs, colPc, batch, to, allCandles, colRet, storeVars,
                    engineVars, driverVars, twoRunVars, walkVars >>

\* client.fetchCandles rejects: the catch block logs and leaves the loop.
FetchRejects ==
    /\ colPc = "fetch"
    /\ fetchLog' = Append(fetchLog, [count |-> RequestCount(colArgs, batch),
                                     to |-> to, rejected |-> TRUE,
                                     got |-> 0])
    /\ CollectEnds(allCandles)
    /\ UNCHANGED << colArgs, engineVars, driverVars, twoRunVars, walkVars >>

CollectNext ==
    \/ \E n \in 0..MaxFetched, inclusive \in BOOLEAN : FetchResolves(n, inclusive)
    \/ FetchRejects

SpecCollect == CollectInit /\ [][CollectNext]_vars

\* ------------------------------------------------------------ the drivers

\* The arguments run-backtest.sh passes to backtest.ts for its sub-command
\* (scripts/run-backtest.sh:11-35); "--force" after collect is its $2.
ScriptArgs(sub) ==
    CASE sub = "collect"         -> [command |-> "collect",  force |-> FALSE]
      [] sub = "collect --force" -> [command |-> "collect",  force |-> TRUE]
      [] sub = "backtest"        -> [command |-> "backtest", force |-> FALSE]
      [] sub = "full"            -> [command |-> "full",     force |-> FALSE]
      [] sub = "force"           -> [command |-> "backtest", force |-> TRUE]
      [] sub = "verbose"         -> [command |-> "backtest", force |-> FALSE]

\* The executions: run-backtest.sh with each sub-command, backtest.ts
\* without a command, and backtest-new.ts.
DriverInputs ==
    { [driver |-> "backtest.ts", script |-> sub,
       command |-> ScriptArgs(sub).command, force |-> ScriptArgs(sub).force]
      : sub \in {"collect", "collect --force", "backtest", "full", "force",
                 "verbose"} }
    \cup { [driver |-> "backtest.ts", script |-> "none",
            command |-> "none", force |-> FALSE],
           [driver |-> "backtest-new.ts", script |-> "none",
            command |-> "none", force |-> FALSE] }

\* The markets a driver walks: BACKTEST_CONFIG.MARKET (backtest.ts:22), or
\* the markets array (backtest-new.ts:47).
DriverMarkets(in) ==
    IF in.driver = "backtest.ts" THEN << "KRW-XRP" >>
    ELSE << "KRW-BTC", "KRW-ETH" >>

\* A strategy instance as the drivers construct it: new Kind(client, config)
\* with client = {} and no third argument, so that isBacktest takes the
\* constructor's default, false.
NewStrategy(kind) == [kind |-> kind, isBacktest |-> FALSE, driven |-> 0]

\* The strategies array (backtest.ts:104-147, backtest-new.ts:18-44).
Strategies(in) ==
    IF in.driver = "backtest.ts"
    THEN << NewStrategy("TrendBreakout"), NewStrategy("RsiBollinger"),
            NewStrategy("GridTrading"), NewStrategy("MomentumBreak"),
            NewStrategy("MeanReversion"), NewStrategy("VolumeSpike") >>
    ELSE << NewStrategy("TrendBreakout"), NewStrategy("RsiBollinger"),
            NewStrategy("GridTrading") >>

\* What one execute call of the instance s does about orders.  The client
\* is {}: evaluating this.client.createOrder(...) throws a TypeError.
\*   TrendBreakout.execute (TrendBreakout.ts:537-544) and GridTrading.execute
\*   (GridTrading.ts:141-159) return before the call in backtest mode only,
\*   and let the TypeError reject execute;
\*   RsiBollinger.execute returns early on a high risk, and otherwise calls
\*   executeOrders (part_012:108-179), whose errors it logs and swallows;
\*   the other strategies only log.
ExecuteEffects(s) ==
    CASE s.kind \in {"TrendBreakout", "GridTrading"} ->
            IF s.isBacktest THEN {"returns"} ELSE {"orderCallRejects"}
      [] s.kind = "RsiBollinger" ->
            {"returns"} \cup IF s.isBacktest THEN {} ELSE {"orderCallLogged"}
      [] OTHER -> {"returns"}

\* What a runBacktest call on the instance s can come to, given the version
\* of the data file it reads: the load fails (no file, or a file with no
\* candle), or the walk calls execute n times.
RunOutcomes(s, version) ==
    { [outcome |-> "loadFailed", executes |-> 0, orderCalls |-> 0] }
    \cup IF version = "none" THEN {}
         ELSE { [outcome |-> "resolved", executes |-> 0, orderCalls |-> 0] }
              \cup { IF e = "orderCallRejects"
                     THEN [outcome |-> "rejected", executes |-> 1,
                           orderCalls |-> 1]
                     ELSE [outcome |-> "resolved", executes |-> n,
                           orderCalls |-> IF e = "returns" THEN 0 ELSE n]
                     : n \in 1..MaxEntries, e \in ExecuteEffects(s) }

DriverInit ==
    /\ drvIn \in DriverInputs
    /\ drvPc = "main"
    /\ dataFile \in [{"KRW-XRP", "KRW-BTC", "KRW-ETH"} -> {"none", "old"}]
    /\ thenRun = FALSE
    /\ instances = << >>
    /\ marketIdx = 0 /\ stratIdx = 0
    /\ runLog = << >>
    /\ collectLog = << >>
    /\ EngineIdle /\ StoreIdle /\ CollectIdle /\ TwoRunIdle /\ WalkIdle

\* backtester.runBacktest(strategies[si], markets[mi], ...) is called.
CallRunBacktest(insts, mi, si) ==
    /\ instances' = [insts EXCEPT ![si].driven = @ + 1]
    /\ marketIdx' = mi
    /\ stratIdx' = si
    /\ drvPc' = "running"

\* collectHistoricalData is called by collectData (backtest.ts:56-67), after
\* the existing file was deleted when force is set.
CallCollect(market, then) ==
    /\ drvPc' = "collecting"
    /\ thenRun' = then
    /\ dataFile' = [dataFile EXCEPT ![market] = "none"]
    /\ UNCHANGED << instances, marketIdx, stratIdx >>

\* main (backtest.ts:207-236) up to its first await, or testNewStrategies
\* (backtest-new.ts:11-60) up to its first runBacktest call.
Start ==
    /\ drvPc = "main"
    /\ LET market == DriverMarkets(drvIn)[1]
           exists == dataFile[market] # "none"
       IN  IF drvIn.driver = "backtest-new.ts"
           THEN CallRunBacktest(Strategies(drvIn), 1, 1)
                /\ UNCHANGED << dataFile, thenRun >>
           ELSE IF drvIn.command = "collect"
           THEN IF exists /\ ~drvIn.force
                THEN /\ drvPc' = "done"
                     /\ UNCHANGED << dataFile, thenRun, instances, marketIdx,
                                     stratIdx >>
                ELSE CallCollect(market, FALSE)
           ELSE \* "backtest", "full" (collectData(false) first), default
                IF exists
                THEN CallRunBacktest(Strategies(drvIn), 1, 1)
                     /\ UNCHANGED << dataFile, thenRun >>
                ELSE CallCollect(market, TRUE)
    /\ UNCHANGED << drvIn, runLog, collectLog >>
    /\ UNCHANGED << engineVars, storeVars, collectVars, twoRunVars,
                    walkVars >>

\* collectHistoricalData returns, having saved the file; collectData
\* returns, and runBacktestStrategies goes on to its first runBacktest call.
CollectReturns ==
    /\ drvPc = "collecting"
    /\ LET market == DriverMarkets(drvIn)[1]
       IN  /\ dataFile' = [dataFile EXCEPT ![market] = "new"]
           /\ collectLog' = Append(collectLog, market)
    /\ IF thenRun
       THEN CallRunBacktest(Strategies(drvIn), 1, 1)
       ELSE drvPc' = "done" /\ UNCHANGED << instances, marketIdx, stratIdx >>
    /\ UNCHANGED << drvIn, thenRun, runLog >>
    /\ UNCHANGED << engineVars, storeVars, collectVars, twoRunVars,
                    walkVars >>

\* The awaited runBacktest call settles.  A rejection ends the strategy loop
\* (the try block holds the whole loop); the loops go on to the next call.
RunBacktestSettles ==
    /\ drvPc = "running"
    /\ LET markets == DriverMarkets(drvIn)
           version == dataFile[markets[marketIdx]]
       IN  \E out \in RunOutcomes(instances[stratIdx], version) :
           /\ runLog' = Append(runLog,
                  [instance |-> stratIdx, market |-> markets[marketIdx],
                   read |-> version, outcome |-> out.outcome,
                   executes |-> out.executes, orderCalls |-> out.orderCalls])
           /\ IF out.outcome = "resolved" /\ stratIdx < Len(instances)
              THEN CallRunBacktest(instances, marketIdx, stratIdx + 1)
              ELSE IF marketIdx < Len(markets)
              THEN CallRunBacktest(instances, marketIdx + 1, 1)
              ELSE /\ drvPc' = "done"
                   /\ UNCHANGED << instances, marketIdx, stratIdx >>
    /\ UNCHANGED << drvIn, dataFile, thenRun, collectLog >>
    /\ UNCHANGED << engineVars, storeVars, collectVars, twoRunVars,
                    walkVars >>

DriverNext ==
    \/ Start
    \/ CollectReturns
    \/ RunBacktestSettles

SpecDriver == DriverInit /\ [][DriverNext]_vars

\* ------------------------------------- two runBacktest invocations at once

\* The two invocations on one Backtester.
Runs == {1, 2}

\* The stored candles both invocations load: lookbackPeriod candles and
\* TwoRunSteps more.
TwoRunStored ==
    { MkCandles(lookbackPeriod + TwoRunSteps, tail)
      : tail \in [1..TwoRunSteps -> {3, 10}] }

\* (capital, commission) of invocation 1 and of invocation 2.
TwoRunParams ==
    { << p1, p2 >> : p1 \in {[capital |-> DefaultCapital,
                              commission |-> DefaultCommission]},
                     p2 \in RunParams }

\* All invocations keep their locals in one and the same place.
LocalsShared(r) == 1

\* Where invocation r keeps the locals of runBacktest: every call of an
\* async function has an activation record of its own.
LocalsOf(r) == r

\* The locals of runBacktest when the loop is reached (lines 154-167).
NewLocals(cs, p) ==
    [candles |-> cs, capital |-> p.capital, commission |-> p.commission,
     i |-> lookbackPeriod, trades |-> << >>, currentTrade |-> NoTrade,
     equity |-> Num(p.capital), highWaterMark |-> Num(p.capital),
     drawdown |-> Zero]

\* The locals after an iteration that changes no ledger (line 169, i++).
Skipped(f) == [f EXCEPT !.i = @ + 1]

\* The locals after the iteration in which execute resolved (lines 179-181).
Entered(f) ==
    [f EXCEPT !.currentTrade = handleEntry(At(f.candles, f.i)), !.i = @ + 1]

\* The locals after the iteration in which shouldExit returned true
\* (lines 189-207).
Exited(f) ==
    LET completedTrade ==
            handleExit(f.currentTrade, At(f.candles, f.i), f.capital,
                       f.commission)
        e == EquityUpdate(f.equity, f.highWaterMark, f.drawdown,
                          ProfitOr0(completedTrade))
    IN  [f EXCEPT !.trades = Append(@, completedTrade),
                  !.currentTrade = NoTrade,
                  !.equity = e.equity,
                  !.highWaterMark = e.highWaterMark,
                  !.drawdown = e.drawdown,
                  !.i = @ + 1]

\* Where runBacktest stands with the locals f at the top of the loop: at the
\* await of shouldEnter or of shouldExit, or past the loop.
PcOf(f) ==
    IF f.i < Len(f.candles)
    THEN IF f.currentTrade = NoTrade THEN "awaitEnter" ELSE "awaitExit"
    ELSE "returned"

TwoRunInit ==
    /\ twoStored \in TwoRunStored
    /\ twoParams \in TwoRunParams
    /\ locals = [a \in Runs |-> NoCall]
    /\ runPc = [r \in Runs |-> "start"]
    /\ answers = [r \in Runs |-> << >>]
    /\ runResult = [r \in Runs |-> NoResult]
    /\ interleaved = FALSE
    /\ EngineIdle /\ StoreIdle /\ CollectIdle /\ DriverIdle /\ WalkIdle

\* Invocation r goes on from the locals f: to its next await, or to its
\* return with the result of calculateResults (line 214).
Proceed(r, f) ==
    /\ locals' = [locals EXCEPT ![LocalsOf(r)] = f]
    /\ runPc' = [runPc EXCEPT ![r] = PcOf(f)]
    /\ runResult' = [runResult EXCEPT ![r] =
                        IF PcOf(f) = "returned"
                        THEN calculateResults(f.trades, Market, f.drawdown)
                        ELSE @]
    /\ interleaved' = (interleaved \/ \E o \in Runs \ {r} : runPc[o] \in Awaiting)
    /\ UNCHANGED << twoStored, twoParams >>
    /\ UNCHANGED << engineVars, storeVars, collectVars, driverVars,
                    walkVars >>

\* runBacktest is called: it runs to its first await.
Invoke(r) ==
    /\ runPc[r] = "start"
    /\ Proceed(r, NewLocals(twoStored, twoParams[r]))
    /\ UNCHANGED answers

\* The strategy of invocation r answers shouldEnter.
EnterAnswered(r, ret) ==
    /\ runPc[r] = "awaitEnter"
    /\ answers' = [answers EXCEPT ![r] = Append(@, ret)]
    /\ IF ret
       THEN /\ runPc' = [runPc EXCEPT ![r] = "awaitExecute"]
            /\ interleaved' =
                   (interleaved \/ \E o \in Runs \ {r} : runPc[o] \in Awaiting)
            /\ UNCHANGED << locals, runResult, twoStored, twoParams >>
            /\ UNCHANGED << engineVars, storeVars, collectVars, driverVars,
                    walkVars >>
       ELSE Proceed(r, Skipped(locals[LocalsOf(r)]))

\* execute of invocation r resolves.
ExecuteDone(r) ==
    /\ runPc[r] = "awaitExecute"
    /\ Proceed(r, Entered(locals[LocalsOf(r)]))
    /\ UNCHANGED answers

\* The strategy of invocation r answers shouldExit.
ExitAnswered(r, ret) ==
    /\ runPc[r] = "awaitExit"
    /\ answers' = [answers EXCEPT ![r] = Append(@, ret)]
    /\ Proceed(r, IF ret THEN Exited(locals[LocalsOf(r)])
                  ELSE Skipped(locals[LocalsOf(r)]))

\* The awaited strategy call of invocation r rejects, and so does r.
RunRejects(r) ==
    /\ runPc[r] \in Awaiting
    /\ runPc' = [runPc EXCEPT ![r] = "rejected"]
    /\ UNCHANGED << locals, answers, runResult, interleaved, twoStored,
                    twoParams >>
    /\ UNCHANGED << engineVars, storeVars, collectVars, driverVars,
                    walkVars >>

TwoRunNext ==
    \/ \E r \in Runs : Invoke(r)
    \/ \E r \in Runs, ret \in BOOLEAN : EnterAnswered(r, ret)
    \/ \E r \in Runs : ExecuteDone(r)
    \/ \E r \in Runs, ret \in BOOLEAN : ExitAnswered(r, ret)
    \/ \E r \in Runs : RunRejects(r)

SpecTwoRuns == TwoRunInit /\ [][TwoRunNext]_vars

\* ------------------------------------- a walk on a strategy of the repository

\* One runBacktest invocation driving an RsiBollinger or a TrendBreakout
\* instance.  What the strategies compute from prices (indicator values,
\* breakout and exit conditions) is an input of each call; the fields they
\* keep between calls are modelled as the code updates them.

\* (3 * 60 * 1000): the candle length TrendBreakout counts in
\* (TrendBreakout.ts:376, 652), also the interval of the candles walked.
CandleMs == 3 * 60 * 1000

\* Candle k (0-based) of the stored sequence of the walk.
WalkCandle(k) ==
    [MkCandle(k, 5) EXCEPT !.timestamp = (k + 1) * CandleMs, !.volume = k % 3]

\* Date.now() while the backtest runs: the candles are historical, so it is
\* later than every candle's timestamp.
WallClock == {Now, Now + CandleMs}

\* A number field holding null (no price and no time is 0).
Null == 0

\* The instance a `new Kind(client, config, isBacktest)` creates
\* (part_012:29-36, TrendBreakout.ts:97-103).
NewInstance(kind, isBacktest) ==
    [kind |-> kind, isBacktest |-> isBacktest,
     lastProcessedIndex |-> -1,
     fed |-> << >>,              \* stored indexes of the candles the indicators got
     entryPrice |-> Null, entryTime |-> Null,
     dailyTradeCount |-> 0, consecutiveLosses |-> 0, lastTradeTime |-> 0]

\* BaseStrategy.updateIndicatorsOptimized on a slice of `len` candles whose
\* first candle is candle `base` of the stored sequence; the callback is
\* updateIndicators (RsiBollinger.ts:57-75), feeding candles[from..to].
updateIndicatorsOptimized(s, len, base) ==
    LET currentIndex == len - 1
        from == IF s.lastProcessedIndex = -1 THEN 0
                ELSE s.lastProcessedIndex + 1
    IN  IF s.lastProcessedIndex < currentIndex
        THEN [s EXCEPT
                 !.fed = s.fed \o [k \in 1..(currentIndex - from + 1) |->
                                      base + from + k - 1],
                 !.lastProcessedIndex = currentIndex]
        ELSE s

\* BaseStrategy.validateCandleData on `len` candles; the candles of the walk
\* all pass the per-candle test.
validateCandleData(len, minLength) == len >= minLength

\* BaseStrategy.calculateTargetLevels with entryPrice the last close; a
\* falsy atrValue (null or 0) is replaced by 2% of the entry price.
calculateTargetLevels(entryPrice, atrValue, profitMultiplier, stopMultiplier, minRiskReward) ==
    LET atrNumber == IF atrValue = Zero
                     THEN RMul(Num(entryPrice), Frac(2, 100)) ELSE atrValue
        target0   == RAdd(Num(entryPrice), RMul(profitMultiplier, atrNumber))
        stopLossPrice == RSub(Num(entryPrice), RMul(stopMultiplier, atrNumber))
        risk      == RSub(Num(entryPrice), stopLossPrice)
    IN  IF RLeq(atrNumber, Zero) \/ RLeq(Num(entryPrice), stopLossPrice)
        THEN [ok |-> FALSE, targetPrice |-> Zero, stopLossPrice |-> Zero]
        ELSE [ok |-> TRUE,
              targetPrice |->
                  IF RLess(RDiv(RSub(target0, Num(entryPrice)), risk), minRiskReward)
                  THEN RAdd(Num(entryPrice), RMul(minRiskReward, risk))
                  ELSE target0,
              stopLossPrice |-> stopLossPrice]

\* BaseStrategy.executeOrders: "throws" on invalid parameters and on a
\* failing createOrder; in backtest mode it returns before any order.
executeOrders(s, volume, sizing, clientOk) ==
    IF volume <= 0 THEN "throws"
    ELSE IF RLeq(sizing.volumeRatio, Zero) \/ RLess(One, sizing.volumeRatio)
    THEN "throws"
    ELSE IF RLeq(sizing.targetPrice, Num(sizing.entryPrice))
            \/ RLeq(Num(sizing.entryPrice), sizing.stopLossPrice)
    THEN "throws"
    ELSE IF s.isBacktest THEN "simulated"
    ELSE IF clientOk THEN "placed" ELSE "throws"

\* RsiBollinger.shouldEnter on a slice of `len` candles starting at stored
\* candle `base`; cond: the RSI, Bollinger and trend conditions all hold.
RsiBollingerShouldEnter(s, len, base, cond) ==
    IF ~validateCandleData(len, 20 + 5)
    THEN [s |-> s, ret |-> FALSE]
    ELSE [s |-> updateIndicatorsOptimized(s, len, base), ret |-> cond]

\* RsiBollinger.shouldExit; cond: one of its exit conditions holds.
RsiBollingerShouldExit(s, len, base, cond) ==
    [s |-> updateIndicatorsOptimized(s, len, base), ret |-> cond]

\* RsiBollinger.execute letting a failure of executeOrders reject it.
RsiBollingerExecuteRethrows(s, candle, atrValue, clientOk) ==
    LET levels == calculateTargetLevels(candle.close, atrValue, One,
                                        Frac(1, 2), Frac(101, 100))
        riskPercent == RMul(RDiv(RSub(Num(candle.close), levels.stopLossPrice),
                                 Num(candle.close)), Num(100))
        sizing == [entryPrice |-> candle.close, targetPrice |-> levels.targetPrice,
                   stopLossPrice |-> levels.stopLossPrice, volumeRatio |-> One]
        orders == executeOrders(s, candle.volume, sizing, clientOk)
    IN  IF ~levels.ok THEN [s |-> s, settled |-> "rejected", did |-> "threw"]
        ELSE IF RLess(Num(5), riskPercent)
        THEN [s |-> s, settled |-> "resolved", did |-> "riskTooHigh"]
        ELSE IF orders = "throws"
        THEN [s |-> s, settled |-> "rejected", did |-> "ordersFailed"]
        ELSE [s |-> s, settled |-> "resolved", did |-> orders]

\* RsiBollinger.execute: returns early when the stop-loss risk is above 5%,
\* logs and swallows what executeOrders throws (lines 222-239).
RsiBollingerExecute(s, candle, atrValue, clientOk) ==
    LET levels == calculateTargetLevels(candle.close, atrValue, One,
                                        Frac(1, 2), Frac(101, 100))
        riskPercent == RMul(RDiv(RSub(Num(candle.close), levels.stopLossPrice),
                                 Num(candle.close)), Num(100))
        sizing == [entryPrice |-> candle.close, targetPrice |-> levels.targetPrice,
                   stopLossPrice |-> levels.stopLossPrice, volumeRatio |-> One]
        orders == executeOrders(s, candle.volume, sizing, clientOk)
    IN  IF ~levels.ok THEN [s |-> s, settled |-> "rejected", did |-> "threw"]
        ELSE IF RLess(Num(5), riskPercent)
        THEN [s |-> s, settled |-> "resolved", did |-> "riskTooHigh"]
        ELSE IF orders = "throws"
        THEN [s |-> s, settled |-> "resolved", did |-> "ordersFailed"]
        ELSE [s |-> s, settled |-> "resolved", did |-> orders]

\* TrendBreakout.checkTradingControls
checkTradingControls(s, currentTime) ==
    IF s.lastTradeTime > 0
       /\ ((currentTime - s.lastTradeTime) \div CandleMs) < cooldownPeriod
    THEN FALSE
    ELSE IF s.dailyTradeCount >= maxDailyTrades THEN FALSE
    ELSE IF s.consecutiveLosses >= consecutiveLossLimit THEN FALSE
    ELSE TRUE

\* TrendBreakout.shouldEnter; signal: the breakout target is reached and the
\* volume, momentum and market-structure conditions hold (lines 444-499).
TrendBreakoutShouldEnter(s, len, candle, signal) ==
    IF ~validateCandleData(len, 60 + 1) THEN [s |-> s, ret |-> FALSE]
    ELSE IF ~s.isBacktest /\ s.entryPrice # Null THEN [s |-> s, ret |-> FALSE]
    ELSE IF ~checkTradingControls(s, candle.timestamp)
    THEN [s |-> s, ret |-> FALSE]
    ELSE [s |-> s, ret |-> signal]

\* TrendBreakout.execute: the position fields and the trade count are set
\* before the order, which is placed unless isBacktest.
TrendBreakoutExecute(s, candle, clientOk) ==
    LET entered == [s EXCEPT !.entryPrice = candle.close,
                             !.entryTime = candle.timestamp,
                             !.dailyTradeCount = s.dailyTradeCount + 1]
        levels  == calculateTargetLevels(candle.close, Zero, Num(2), One,
                                         Frac(3, 2))
    IN  IF ~levels.ok
        THEN [s |-> entered, settled |-> "rejected", did |-> "threw"]
        ELSE IF s.isBacktest
        THEN [s |-> entered, settled |-> "resolved", did |-> "simulated"]
        ELSE IF clientOk
        THEN [s |-> entered, settled |-> "resolved", did |-> "placed"]
        ELSE [s |-> entered, settled |-> "rejected", did |-> "threw"]

\* TrendBreakout.resetPosition; now: what Date.now() returns.
resetPosition(s, now) ==
    [(IF ~s.isBacktest
      THEN [s EXCEPT !.entryPrice = Null, !.entryTime = Null]
      ELSE s)
     EXCEPT !.lastTradeTime = now]

\* TrendBreakout.shouldExit; exit: which of its exit conditions holds first
\* ("none" when none does).
TrendBreakoutShouldExit(s, exit, now) ==
    IF exit = "none" THEN [s |-> s, ret |-> FALSE]
    ELSE IF exit = "stopLoss"
    THEN [s |-> resetPosition([s EXCEPT !.consecutiveLosses =
                                            s.consecutiveLosses + 1], now),
          ret |-> TRUE]
    ELSE [s |-> resetPosition(s, now), ret |-> TRUE]

\* The walks: a strategy kind, constructed with or without isBacktest, on a
\* stored sequence of lookbackPeriod + n candles.
WalkInputs ==
    { [kind |-> kind, isBacktest |-> b, len |-> lookbackPeriod + n]
      : kind \in {"RsiBollinger", "TrendBreakout"}, b \in BOOLEAN,
        n \in {1, MaxWalk} }

\* What this.atr.getResult() gives execute: nothing (0), a tenth, one.
AtrValues == {Zero, Frac(1, 10), One}

\* runBacktest up to the loop (Backtester.ts:154-169).
WalkInit ==
    /\ \E in \in WalkInputs :
          /\ walk = [pc |-> "loop", i |-> lookbackPeriod, len |-> in.len,
                     currentTrade |-> NoTrade, nTrades |-> 0]
          /\ strategy = NewInstance(in.kind, in.isBacktest)
    /\ walkLog = << >>
    /\ EngineIdle /\ StoreIdle /\ CollectIdle /\ DriverIdle /\ TwoRunIdle

\* A settled strategy call, with the counters of the instance before it.
Settled(op, ret, signal, did) ==
    [op |-> op, index |-> walk.i, ret |-> ret, signal |-> signal, did |-> did,
     dailyTradeCount |-> strategy.dailyTradeCount,
     consecutiveLosses |-> strategy.consecutiveLosses]

\* A NO_POSITION iteration up to the end of shouldEnter (lines 170-177).
WalkShouldEnter(signal) ==
    /\ walk.pc = "loop" /\ walk.i < walk.len
    /\ walk.currentTrade = NoTrade
    /\ LET r == IF strategy.kind = "RsiBollinger"
                THEN RsiBollingerShouldEnter(strategy, lookbackPeriod + 1,
                                             walk.i - lookbackPeriod, signal)
                ELSE TrendBreakoutShouldEnter(strategy, lookbackPeriod + 1,
                                              WalkCandle(walk.i), signal)
       IN  /\ strategy' = r.s
           /\ walkLog' = Append(walkLog,
                  Settled("shouldEnter", IF r.ret THEN "true" ELSE "false",
                          signal, "none"))
           /\ walk' = IF r.ret THEN [walk EXCEPT !.pc = "execute"]
                      ELSE [walk EXCEPT !.i = walk.i + 1]
    /\ UNCHANGED << engineVars, storeVars, collectVars, driverVars, twoRunVars >>

\* execute and, when it resolves, handleEntry (lines 178-179).
WalkExecute(atrValue, clientOk) ==
    /\ walk.pc = "execute"
    /\ LET r == IF strategy.kind = "RsiBollinger"
                THEN RsiBollingerExecute(strategy, WalkCandle(walk.i),
                                         atrValue, clientOk)
                ELSE TrendBreakoutExecute(strategy, WalkCandle(walk.i), clientOk)
       IN  /\ strategy' = r.s
           /\ walkLog' = Append(walkLog,
                  Settled("execute",
                          IF r.settled = "resolved" THEN "void" ELSE "reject",
                          FALSE, r.did))
           /\ walk' = IF r.settled = "resolved"
                      THEN [walk EXCEPT
                               !.currentTrade = handleEntry(WalkCandle(walk.i)),
                               !.pc = "loop", !.i = walk.i + 1]
                      ELSE [walk EXCEPT !.pc = "rejected"]
    /\ UNCHANGED << engineVars, storeVars, collectVars, driverVars, twoRunVars >>

\* An IN_POSITION iteration (lines 183-210).
WalkShouldExit(exit, now) ==
    /\ walk.pc = "loop" /\ walk.i < walk.len
    /\ walk.currentTrade # NoTrade
    /\ LET r == IF strategy.kind = "RsiBollinger"
                THEN RsiBollingerShouldExit(strategy, lookbackPeriod + 1,
                                            walk.i - lookbackPeriod,
                                            exit # "none")
                ELSE TrendBreakoutShouldExit(strategy, exit, now)
       IN  /\ strategy' = r.s
           /\ walkLog' = Append(walkLog,
                  Settled("shouldExit", IF r.ret THEN "true" ELSE "false",
                          FALSE, exit))
           /\ walk' = IF r.ret
                      THEN [walk EXCEPT !.currentTrade = NoTrade,
                                        !.nTrades = walk.nTrades + 1,
                                        !.i = walk.i + 1]
                      ELSE [walk EXCEPT !.i = walk.i + 1]
    /\ UNCHANGED << engineVars, storeVars, collectVars, driverVars, twoRunVars >>

\* The loop is over (line 214).
WalkReturn ==
    /\ walk.pc = "loop" /\ ~(walk.i < walk.len)
    /\ walk' = [walk EXCEPT !.pc = "returned"]
    /\ UNCHANGED << strategy, walkLog >>
    /\ UNCHANGED << engineVars, storeVars, collectVars, driverVars, twoRunVars >>

WalkNext ==
    \/ \E signal \in BOOLEAN : WalkShouldEnter(signal)
    \/ \E atrValue \in AtrValues, clientOk \in BOOLEAN :
          WalkExecute(atrValue, clientOk)
    \/ \E exit \in {"none", "target", "stopLoss"}, now \in WallClock :
          WalkShouldExit(exit, now)
    \/ WalkReturn

SpecWalk == WalkInit /\ [][WalkNext]_vars

\* ------------------------------------------------------------------ claims

\* Trades handleEntry created and handleExit has not closed.
OpenTrades == nOpened - Len(trades)

\* C1: at every step of a walk the engine holds at most one open Trade: the
\* trades opened and not yet closed are never more than one, and that one is
\* the trade currentTrade refers to.
C1_SinglePosition ==
    /\ OpenTrades \in {0, 1}
    /\ OpenTrades = 1 <=> currentTrade # NoTrade

\* A second trade is open after the first one was closed.
C1_Witness == nOpened = 2 /\ Len(trades) = 1 /\ currentTrade # NoTrade

\* C2: the slice handed to shouldEnter, shouldExit and execute at step i is
\* candles[i - L .. i]: L + 1 candles, the last one candle i, none of them a
\* candle with an index greater than i; i ranges over L .. length - 1.
C2_SliceIsLookbackWindow ==
    inflight # NoCall =>
        /\ inflight.op \in {"shouldEnter", "shouldExit", "execute"}
        /\ inflight.index = i
        /\ lookbackPeriod <= i /\ i <= Len(candles) - 1
        /\ Len(inflight.slice) = lookbackPeriod + 1
        /\ \A k \in 1..Len(inflight.slice) :
               inflight.slice[k] = At(candles, i - lookbackPeriod + k - 1)
        /\ inflight.slice[Len(inflight.slice)] = At(candles, i)
        /\ \A k \in 1..Len(inflight.slice) :
               \A j \in (i + 1)..(Len(candles) - 1) :
                   inflight.slice[k] # At(candles, j)

\* shouldExit is awaited at a step that is not the last one.
C2_Witness ==
    /\ inflight # NoCall
    /\ inflight.op = "shouldExit"
    /\ i + 1 < Len(candles)

\* The profits of a ledger, in order.
Profits(ts) == [k \in 1..Len(ts) |-> ts[k].profit]

\* The sum of a sequence of numbers, from the front.
RECURSIVE SumOf(_)
SumOf(xs) == IF xs = << >> THEN Zero ELSE RAdd(xs[1], SumOf(Tail(xs)))

\* Equity after the first k trades of a ledger, starting from the capital.
EquityAt(ts, k) == RAdd(Num(capital), SumOf(SubSeq(Profits(ts), 1, k)))

RMax(a, b) == IF RLess(a, b) THEN b ELSE a

\* The highest equity up to and including the k-th exit.
RECURSIVE PeakAt(_, _)
PeakAt(ts, k) ==
    IF k = 0 THEN Num(capital) ELSE RMax(PeakAt(ts, k - 1), EquityAt(ts, k))

\* The largest decline from the peak over the first k exits of a ledger.
RECURSIVE DeclineAt(_, _)
DeclineAt(ts, k) ==
    IF k = 0 THEN Zero
    ELSE RMax(DeclineAt(ts, k - 1),
              RDiv(RSub(PeakAt(ts, k), EquityAt(ts, k)), PeakAt(ts, k)))

ExitFields == {"exitTime", "exitPrice", "profit", "profitPercent"}

\* C3: a Trade still open when the walk ends is not force-closed: it has no
\* exit fields, is not in result.trades, is not counted in totalTrades or
\* netProfit, and equity and drawdown are those of the closed trades alone;
\* every Trade of result.trades has its exit fields set.
C3_OpenTradeDiscarded ==
    pc = "returned" =>
        /\ \A k \in 1..Len(result.trades) :
               ExitFields \subseteq DOMAIN result.trades[k]
        /\ currentTrade # NoTrade =>
               /\ DOMAIN currentTrade \cap ExitFields = {}
               /\ \A k \in 1..Len(result.trades) :
                      result.trades[k].entryTime # currentTrade.entryTime
               /\ result.totalTrades = nOpened - 1
               /\ Len(result.trades) = nOpened - 1
               /\ result.netProfit = RSub(equity, Num(capital))
               /\ equity = EquityAt(result.trades, Len(result.trades))
               /\ result.maxDrawdown = DeclineAt(result.trades, Len(result.trades))

\* The walk ended with a trade open after another one was closed.
C3_Witness ==
    /\ pc = "returned"
    /\ currentTrade # NoTrade
    /\ Len(result.trades) = 1

\* The number of elements of a sequence of numbers that are above zero.
RECURSIVE CountPositive(_)
CountPositive(xs) ==
    IF xs = << >> THEN 0
    ELSE (IF RLess(Zero, xs[1]) THEN 1 ELSE 0) + CountPositive(Tail(xs))

\* C4: the result of a run is the arithmetic of its ledger: totalTrades is
\* the number of trades, netProfit the sum of their profits, winningTrades
\* the number with profitPercent > 0, winRate winningTrades / totalTrades (0
\* without trades), profitFactor the sum of the positive profits over the
\* absolute sum of the negative ones (0 when that is 0); profits +1000 and
\* -400 give profitFactor 2.5 and winRate 0.5.
C4_ResultArithmetic ==
    pc = "returned" =>
        LET ts == trades
            n == Len(ts)
            wins == CountPositive([k \in 1..n |-> ts[k].profitPercent])
            gain == SumOf(SelectSeq(Profits(ts), LAMBDA x : RLess(Zero, x)))
            loss == RAbs(SumOf(SelectSeq(Profits(ts), LAMBDA x : RLess(x, Zero))))
        IN  /\ result.trades = ts
            /\ result.totalTrades = n
            /\ result.netProfit = SumOf(Profits(ts))
            /\ result.winningTrades = wins
            /\ result.winRate = IF n = 0 THEN Zero ELSE Frac(wins, n)
            /\ result.profitFactor =
                   IF loss = Zero THEN Zero ELSE RDiv(gain, loss)
            /\ Profits(ts) = << Num(1000), Num(-400) >> =>
                   /\ result.profitFactor = Frac(5, 2)
                   /\ result.winRate = Frac(1, 2)

\* A run returned the ledger of Scenario E: +1000, then -400.
C4_Witness ==
    /\ pc = "returned"
    /\ Profits(result.trades) = << Num(1000), Num(-400) >>
    /\ result.profitFactor = Frac(5, 2)

\* C5: over a walk highWaterMark never decreases, drawdown never decreases,
\* and drawdown is always a fraction in [0, 1).
C5_DrawdownMonotoneInUnitInterval ==
    [][/\ RLeq(highWaterMark, highWaterMark')
       /\ RLeq(drawdown, drawdown')
       /\ RLeq(Zero, drawdown')
       /\ RLess(drawdown', One)]_vars

\* The monotonicity and the lower bound of C5 alone.
C5_MonotoneNonNegative ==
    [][/\ RLeq(highWaterMark, highWaterMark')
       /\ RLeq(drawdown, drawdown')
       /\ RLeq(Zero, drawdown')]_vars

\* Every completed call so far resolved with true (or void, for execute).
AlwaysTrue == \A k \in 1..Len(calls) : calls[k].ret \in {"true", "void"}

\* Every candle of the loaded sequence has the same close price.
ConstantClose == \A k \in 1..Len(candles) : candles[k].close = candles[1].close

\* C6: a completed trade whose exitPrice equals its entryPrice has
\* profitPercent = -2 * commissionRate; so on a constant-close sequence with
\* commission 0.0005 and lookback 100, a strategy that always enters and
\* exits one candle later yields only trades with profitPercent = -0.001,
\* and a netProfit below 0.
C6_CommissionEffect ==
    /\ \A k \in 1..Len(trades) :
           trades[k].exitPrice = trades[k].entryPrice =>
               trades[k].profitPercent = RNeg(RMul(Num(2), commission))
    /\ ( /\ pc = "returned"
         /\ commission = Frac(5, 10000)
         /\ ConstantClose
         /\ AlwaysTrue
         /\ Len(candles) >= lookbackPeriod + 2 ) =>
           /\ result.totalTrades = (Len(candles) - lookbackPeriod) \div 2
           /\ \A k \in 1..Len(result.trades) :
                  result.trades[k].profitPercent = Frac(-1, 1000)
           /\ RLess(result.netProfit, Zero)

\* Scenario A on the longest sequence: two round trips, each at -0.001.
C6_Witness ==
    /\ pc = "returned"
    /\ commission = Frac(5, 10000)
    /\ ConstantClose
    /\ AlwaysTrue
    /\ Len(result.trades) = 2
    /\ result.trades[2].profitPercent = Frac(-1, 1000)

\* Every completed shouldEnter call resolved with false, and no call rejected.
EnterAlwaysFalse ==
    \A k \in 1..Len(calls) :
        /\ calls[k].ret # "reject"
        /\ calls[k].op = "shouldEnter" => calls[k].ret = "false"

\* C7: with a strategy whose shouldEnter returns false at every step the run
\* never calls execute or shouldExit, and it returns totalTrades = 0,
\* winRate = 0, profitFactor = 0, netProfit = 0 and maxDrawdown = 0.
C7_NeverEnterAllZero ==
    EnterAlwaysFalse =>
        /\ \A k \in 1..Len(calls) : calls[k].op = "shouldEnter"
        /\ inflight # NoCall => inflight.op = "shouldEnter"
        /\ nOpened = 0
        /\ pc = "returned" =>
               /\ result.totalTrades = 0
               /\ result.winningTrades = 0
               /\ result.winRate = Zero
               /\ result.profitFactor = Zero
               /\ result.netProfit = Zero
               /\ result.maxDrawdown = Zero
               /\ result.trades = << >>

\* A run returned after shouldEnter said false at two or more steps.
C7_Witness ==
    /\ pc = "returned"
    /\ EnterAlwaysFalse
    /\ Len(calls) >= 2

\* C8: runBacktest on a stored sequence shorter than the lookback window
\* (a file with only the header row included) fails: it calls no strategy
\* method and returns no BacktestResult, in particular no all-zero one.
C8_ShortSequenceFails ==
    (fileExists /\ Len(stored) < lookbackPeriod /\ pc # "start") =>
        /\ pc = "rejected"
        /\ error # NoError
        /\ result = NoResult
        /\ calls = << >>

\* C9: loading a key nothing was saved for raises the not-found failure, and
\* runBacktest propagates that failure to its caller (it differs from the
\* one for a file without data), without calling any strategy method and
\* without returning a result.
C9_NotFoundPropagates ==
    (~fileExists /\ pc # "start") =>
        /\ pc = "rejected"
        /\ consoleError = "FileNotFound"
        /\ error = consoleError
        /\ result = NoResult
        /\ calls = << >>
        /\ inflight = NoCall

\* A strategy call has rejected.
Rejected == \E k \in 1..Len(calls) : calls[k].ret = "reject"

\* C10: when shouldEnter, shouldExit or execute rejects at a step,
\* runBacktest rejects with that failure: the rejecting call is the last
\* strategy call, the step opens and closes no Trade and does not move to
\* another candle, and no BacktestResult is returned then or later.
C10_RejectionIsFatal ==
    [][Rejected' =>
          /\ pc' = "rejected"
          /\ error' = "StrategyRejection"
          /\ result' = NoResult
          /\ inflight' = NoCall
          /\ calls'[Len(calls')].ret = "reject"
          /\ \A k \in 1..(Len(calls') - 1) : calls'[k].ret # "reject"
          /\ trades' = trades
          /\ currentTrade' = currentTrade
          /\ nOpened' = nOpened
          /\ i' = i
          /\ equity' = equity /\ drawdown' = drawdown]_vars

\* A strategy call rejected on a run that had already completed a trade,
\* with candles left to walk.
C10_Witness ==
    /\ Rejected
    /\ pc = "rejected"
    /\ Len(trades) = 1
    /\ i + 1 < Len(candles)

\* The engine's position state of section 4.3.
Position == IF currentTrade = NoTrade THEN "NO_POSITION" ELSE "IN_POSITION"

\* The strategy call that completed last, after a step that completed one.
LastCall == calls[Len(calls)]

\* C20: a run starts in NO_POSITION; it moves to IN_POSITION only at a step
\* where shouldEnter returned true (and execute resolved), back to
\* NO_POSITION only at a step where shouldExit returned true, and every
\* other step keeps the position state.
C20_PositionStateMachine ==
    [][/\ pc = "start" => Position = "NO_POSITION"
       /\ (Position = "NO_POSITION" /\ Position' = "IN_POSITION") =>
              /\ Len(calls') = Len(calls) + 1 /\ Len(calls) >= 1
              /\ LastCall' = [op |-> "execute", index |-> i, ret |-> "void"]
              /\ LastCall = [op |-> "shouldEnter", index |-> i, ret |-> "true"]
       /\ (Position = "IN_POSITION" /\ Position' = "NO_POSITION") =>
              /\ Len(calls') = Len(calls) + 1
              /\ LastCall' = [op |-> "shouldExit", index |-> i, ret |-> "true"]
       /\ (Len(calls') = Len(calls) + 1 /\ LastCall'.op = "shouldExit"
             /\ LastCall'.ret = "false") => Position' = "IN_POSITION"
       /\ (Len(calls') = Len(calls) + 1 /\ LastCall'.op = "shouldEnter"
             /\ LastCall'.ret = "false") => Position' = "NO_POSITION"]_vars

\* A run went NO_POSITION -> IN_POSITION -> NO_POSITION -> IN_POSITION and
\* shouldExit then said false, keeping it IN_POSITION.
C20_Witness ==
    /\ Len(trades) = 1
    /\ Position = "IN_POSITION"
    /\ Len(calls) >= 1
    /\ LastCall.op = "shouldExit" /\ LastCall.ret = "false"

\* The step completes a strategy call `op` with the answer `ret`.
Completes(op, ret) ==
    /\ Len(calls') = Len(calls) + 1
    /\ calls'[Len(calls')].op = op
    /\ calls'[Len(calls')].ret = ret

\* C21: at a NO_POSITION step where shouldEnter returns true the engine
\* calls execute(market, the current candle's volume, the same slice) and
\* opens the Trade only when execute has completed: a long Trade with
\* entryTime and entryPrice the current candle's timestamp and close; when
\* shouldEnter returns false execute is not called and no Trade is opened.
C21_EntryOnlyAfterExecute ==
    [][/\ Completes("shouldEnter", "true") =>
              /\ Position = "NO_POSITION"
              /\ inflight' = [op |-> "execute", index |-> i,
                              slice |-> inflight.slice, market |-> Market,
                              volume |-> At(candles, i).volume]
              /\ currentTrade' = NoTrade /\ nOpened' = nOpened
              /\ i' = i
       /\ Completes("execute", "void") =>
              /\ currentTrade' = [entryTime |-> At(candles, i).timestamp,
                                  entryPrice |-> At(candles, i).close,
                                  side |-> "long"]
              /\ nOpened' = nOpened + 1
       /\ Completes("shouldEnter", "false") =>
              /\ inflight' = NoCall
              /\ currentTrade' = NoTrade /\ nOpened' = nOpened
       /\ (inflight'.op = "execute" /\ inflight.op # "execute") =>
              Completes("shouldEnter", "true")
       /\ (nOpened' # nOpened \/ (currentTrade = NoTrade /\ currentTrade' # NoTrade)) =>
              Completes("execute", "void")]_vars

\* shouldEnter said false at the first step and true at a later one, and the
\* Trade was opened when execute completed.
C21_Witness ==
    /\ Len(calls) >= 3
    /\ calls[1].op = "shouldEnter" /\ calls[1].ret = "false"
    /\ LastCall.op = "execute" /\ LastCall.ret = "void"
    /\ currentTrade # NoTrade
    /\ currentTrade.entryTime = At(candles, LastCall.index).timestamp

\* (exitPrice - entryPrice) / entryPrice - 2 * commissionRate
NetReturn(entryPrice, exitPrice) ==
    RSub(Frac(exitPrice - entryPrice, entryPrice), RAdd(commission, commission))

\* C22: at an IN_POSITION step shouldExit is called with the slice and the
\* open trade's entryPrice; when it returns true the closed trade has
\* exitTime and exitPrice the current candle's timestamp and close,
\* profitPercent = (exitPrice - entryPrice) / entryPrice - 2 * commission and
\* profit = capital * profitPercent, capital being the initial capital
\* passed to runBacktest and not the running equity.
C22_ExitArithmetic ==
    [][/\ (inflight'.op = "shouldExit" /\ inflight.op # "shouldExit") =>
              /\ Position = "IN_POSITION"
              /\ inflight'.slice = JsSlice(candles, i - lookbackPeriod, i + 1)
              /\ inflight'.entryPrice = currentTrade.entryPrice
       /\ Completes("shouldExit", "true") =>
              /\ Len(trades') = Len(trades) + 1
              /\ LET t == trades'[Len(trades')]
                     pp == NetReturn(currentTrade.entryPrice, At(candles, i).close)
                 IN  /\ t.entryTime = currentTrade.entryTime
                     /\ t.entryPrice = currentTrade.entryPrice
                     /\ t.exitTime = At(candles, i).timestamp
                     /\ t.exitPrice = At(candles, i).close
                     /\ t.profitPercent = pp
                     /\ t.profit = RMul(Num(capital), pp)
       /\ Len(trades') # Len(trades) => Completes("shouldExit", "true")]_vars

\* A second trade was closed at a gain or a loss when the running equity
\* was no longer the initial capital.
C22_Witness ==
    /\ Len(trades) = 2
    /\ EquityAt(trades, 1) # Num(capital)
    /\ trades[2].profit # Zero
    /\ trades[2].profit # RMul(EquityAt(trades, 1), trades[2].profitPercent)

IsDecision(c) == c.op \in {"shouldEnter", "shouldExit"}

\* The decision calls made so far, completed or awaited, in order.
DecisionCalls ==
    SelectSeq(IF inflight = NoCall THEN calls
              ELSE Append(calls, [op |-> inflight.op, index |-> inflight.index,
                                  ret |-> "pending"]),
              IsDecision)

\* C23: within one run the strategy calls are strictly sequential: a call
\* starts only when no other call is awaited (or on the step that completes
\* the awaited one); the decision calls visit the candle indexes L, L + 1,
\* ..., length - 1 in increasing order, one decision call per index
\* (shouldEnter or shouldExit), an execute call belongs to the index of the
\* shouldEnter before it, and the run returns after the call at length - 1.
C23_SequentialWalk ==
    [][/\ (inflight' # NoCall /\ inflight' # inflight) =>
              \/ inflight = NoCall
              \/ /\ Len(calls') = Len(calls) + 1
                 /\ calls'[Len(calls')].op = inflight.op
                 /\ calls'[Len(calls')].index = inflight.index
                 /\ calls'[Len(calls')].ret # "pending"
       /\ (Len(calls') # Len(calls)) =>
              /\ inflight # NoCall
              /\ calls' = Append(calls, calls'[Len(calls')])
       /\ LET d == DecisionCalls'
          IN  /\ \A k \in 1..Len(d) : d[k].index = lookbackPeriod + k - 1
              /\ \A k \in 1..Len(d) : d[k].index <= Len(candles') - 1
              /\ pc' = "returned" =>
                     Len(d) = IF Len(candles') > lookbackPeriod
                              THEN Len(candles') - lookbackPeriod ELSE 0
       /\ \A k \in 1..Len(calls') :
              calls'[k].op = "execute" =>
                  /\ k > 1
                  /\ calls'[k - 1] = [op |-> "shouldEnter",
                                      index |-> calls'[k].index, ret |-> "true"]]_vars

\* A run returned after MaxSteps decision calls of both kinds.
C23_Witness ==
    /\ pc = "returned"
    /\ Len(DecisionCalls) = MaxSteps
    /\ \E k \in 1..Len(calls) : calls[k].op = "shouldExit"
    /\ \E k \in 1..Len(calls) : calls[k].op = "execute"

\* C28: the maxDrawdown of a result is the largest value, over the trade
\* exits of the walk, of (peak equity up to that exit - equity after that
\* exit) / peak equity up to that exit; equity starts at the initial capital
\* and changes only at a trade exit, by the trade's profit; the peak includes
\* the initial capital; maxDrawdown is 0 when no exit leaves equity below the
\* peak.
C28_MaxDrawdownIsLargestDecline ==
    [][/\ (pc = "start" /\ pc' = "loop") => equity' = Num(capital)
       /\ (pc # "start" /\ equity' # equity) =>
              /\ Completes("shouldExit", "true")
              /\ trades' = Append(trades, trades'[Len(trades')])
              /\ equity' = RAdd(equity, trades'[Len(trades')].profit)
       /\ (pc # "start" /\ trades' # trades) =>
              equity' = EquityAt(trades', Len(trades'))
       /\ pc' = "returned" =>
              LET ts == result'.trades
              IN  /\ result'.maxDrawdown = DeclineAt(ts, Len(ts))
                  /\ (\A k \in 1..Len(ts) :
                          ~RLess(EquityAt(ts, k), PeakAt(ts, k)))
                         => result'.maxDrawdown = Zero]_vars

\* A run returned after a gain that raised the peak above the capital and a
\* loss from that peak.
C28_Witness ==
    /\ pc = "returned"
    /\ Len(result.trades) = 2
    /\ RLess(Zero, result.trades[1].profit)
    /\ RLess(result.trades[2].profit, Zero)
    /\ result.maxDrawdown =
           RDiv(RSub(EquityAt(trades, 1), EquityAt(trades, 2)), EquityAt(trades, 1))
    /\ result.maxDrawdown #
           RDiv(RSub(Num(capital), EquityAt(trades, 2)), Num(capital))

\* The 0-based index of the candle of the loaded sequence with timestamp t.
CandleIndex(t) == (CHOOSE k \in 1..Len(candles) : candles[k].timestamp = t) - 1

\* C29: in result.trades the trades are in the order they were entered;
\* each trade's exit candle is strictly later than its entry candle; each
\* trade's entry candle is strictly later than the previous trade's exit
\* candle.
C29_TradesAreOrderedAndDisjoint ==
    LET ts == IF pc = "returned" THEN result.trades ELSE trades
    IN  /\ \A k \in 1..Len(ts) :
               /\ \E c \in 1..Len(candles) : candles[c].timestamp = ts[k].entryTime
               /\ \E c \in 1..Len(candles) : candles[c].timestamp = ts[k].exitTime
               /\ CandleIndex(ts[k].entryTime) < CandleIndex(ts[k].exitTime)
               /\ ts[k].entryTime < ts[k].exitTime
        /\ \A k \in 2..Len(ts) :
               /\ CandleIndex(ts[k - 1].exitTime) < CandleIndex(ts[k].entryTime)
               /\ ts[k - 1].entryTime < ts[k].entryTime
        /\ (currentTrade # NoTrade /\ Len(ts) > 0) =>
               ts[Len(ts)].exitTime < currentTrade.entryTime

\* A run returned two trades, each closed on the candle after its entry
\* and the second entered on the candle after the first one's exit.
C29_Witness ==
    /\ pc = "returned"
    /\ Len(result.trades) = 2
    /\ \A k \in 1..2 :
           CandleIndex(result.trades[k].exitTime) =
               CandleIndex(result.trades[k].entryTime) + 1
    /\ CandleIndex(result.trades[2].entryTime) =
           CandleIndex(result.trades[1].exitTime) + 1

\* ---------------------------------------------------- claims on the store

\* The candle a saved candle is expected to come back as: the same fields,
\* with volume 0 when it was saved without one.
ExpectedBack(candle) ==
    [timestamp |-> candle.timestamp, open |-> candle.open,
     high |-> candle.high, low |-> candle.low, close |-> candle.close,
     volume |-> IF "volume" \in DOMAIN candle THEN candle.volume
                ELSE Dec(0, 0)]

ExpectedLoad(cs) ==
    [ok |-> TRUE, err |-> NoError,
     value |-> [k \in 1..Len(cs) |-> ExpectedBack(cs[k])]]

\* C14: a loadCandles call on a key whose last saveCandles call wrote a
\* valid non-empty sequence returns the same candles in the same order with
\* the same values, a candle saved without volume coming back with volume 0.
C14_RoundTrip ==
    (storeCall.op = "loadCandles" /\ storeCall.saved.saved
        /\ Len(storeCall.saved.candles) > 0)
    => storeCall.ret = ExpectedLoad(storeCall.saved.candles)

\* A load after a save of two candles, the first one without a volume and
\* the second one with fractional prices.
C14_Witness ==
    /\ storeCall.op = "loadCandles"
    /\ storeCall.saved.saved
    /\ Len(storeCall.saved.candles) = 2
    /\ "volume" \notin DOMAIN storeCall.saved.candles[1]
    /\ storeCall.saved.candles[2].high = Dec(1005, 2)
    /\ storeCall.ret.ok

\* The keys made of the program's markets and intervals have different paths.
ProgramKeysHaveOwnFiles ==
    \A m1, m2 \in MARKETS : \A i1, i2 \in CANDLE_INTERVAL :
        getCandleFilePath(m1, i1) = getCandleFilePath(m2, i2)
            => (m1 = m2 /\ i1 = i2)

DecLeq(a, b) == a.m * Pow10(b.e) <= b.m * Pow10(a.e)

\* A valid Candle: an integer timestamp, finite positive prices with
\* high >= low, and a volume that is not negative.
ValidCandle(candle) ==
    /\ \A f \in DOMAIN candle : candle[f] # NaN
    /\ candle.timestamp.e = 0
    /\ \A f \in {"open", "high", "low", "close"} : candle[f].m > 0
    /\ DecLeq(candle.low, candle.high)
    /\ candle.volume.m >= 0

\* C16: a loadCandles call that returns, returns valid candles only (rows
\* that do not parse, or whose high is below their low, make it throw).
C16_LoadReturnsValidCandles ==
    (storeCall.op = "loadCandles" /\ storeCall.ret.ok)
    => \A k \in 1..Len(storeCall.ret.value) :
           ValidCandle(storeCall.ret.value[k])

\* -------------------------------------------------- claims on the collector

\* The answered fetch number k returned fewer records than it asked for.
ShortFetch(k) == ~fetchLog[k].rejected /\ fetchLog[k].got < fetchLog[k].count

\* C17: a fetchCandles call answered with fewer records than requested (none
\* included) is the last one: no fetch follows it, and the invocation returns
\* without an error the candles gathered so far, which are the ones persisted.
C17_ShortFetchEndsPagination ==
    /\ \A k \in 1..Len(fetchLog) :
          ShortFetch(k) => (k = Len(fetchLog) /\ colPc = "returned")
    /\ (colPc = "returned" /\ Len(fetchLog) > 0 /\ ShortFetch(Len(fetchLog))) =>
          /\ colRet = allCandles
          /\ loadCandlesOf(files, colArgs.market, colArgs.interval)
                 = ExpectedLoad(colRet)

\* The file of the collected key holds the returned sequence, and the
\* returned sequence is the one handed to saveCandles.
ReturnedIsPersisted ==
    /\ lastSaved[[market |-> colArgs.market, interval |-> colArgs.interval]]
           = [saved |-> TRUE, candles |-> colRet]
    /\ loadCandlesOf(files, colArgs.market, colArgs.interval)
           = ExpectedLoad(colRet)

\* C25: whatever the exchange client answers, the sequence that
\* collectHistoricalData persists and returns is ascending by timestamp, has
\* no two candles with the same timestamp, and is the same sequence in the
\* file and in the return value.
C25_CollectedAscendingNoDuplicates ==
    colPc = "returned" =>
        /\ \A k \in 1..(Len(colRet) - 1) :
               colRet[k].timestamp.m < colRet[k + 1].timestamp.m
        /\ ReturnedIsPersisted

\* C25 without the absence of duplicates: ascending order, and the same
\* sequence in the file and in the return value.
C25_AscendingAndPersisted ==
    colPc = "returned" =>
        /\ \A k \in 1..(Len(colRet) - 1) :
               colRet[k].timestamp.m <= colRet[k + 1].timestamp.m
        /\ ReturnedIsPersisted

\* The number of records the answered fetches brought.
RECURSIVE GotUpTo(_)
GotUpTo(k) == IF k = 0 THEN 0 ELSE GotUpTo(k - 1) + fetchLog[k].got

\* The fetches issued so far, the one awaited included, are within the
\* limits, a failed one is the last one, and a finished invocation has
\* persisted what the answered fetches brought.
CollectWithinLimits ==
    /\ Len(fetchLog) + (IF colPc = "fetch" THEN 1 ELSE 0)
           <= (colArgs.days * ((24 * 60) \div colArgs.interval) + 199) \div 200
    /\ colPc = "fetch" =>
           (RequestCount(colArgs, batch) >= 1 /\ RequestCount(colArgs, batch) <= 200)
    /\ \A k \in 1..Len(fetchLog) :
           /\ fetchLog[k].count >= 1 /\ fetchLog[k].count <= 200
           /\ fetchLog[k].rejected => (k = Len(fetchLog) /\ colPc = "returned")
    /\ colPc = "returned" =>
           /\ ReturnedIsPersisted
           /\ Len(colRet) = GotUpTo(Len(fetchLog))

\* C26: collectHistoricalData always terminates: it issues at most
\* ceil(totalCandles / 200) fetches, each asking for at most 200 records; a
\* failed fetch is not issued again but ends pagination; and in every case
\* the invocation finishes by persisting the candles gathered so far.
\* Termination: every settled fetch either ends the invocation or moves it
\* to the next batch, and the number of batches is bounded.
C26_CollectTerminates ==
    /\ []CollectWithinLimits
    /\ [][/\ colPc = "fetch"
          /\ Len(fetchLog') = Len(fetchLog) + 1
          /\ \/ colPc' = "returned"
             \/ /\ colPc' = "fetch"
                /\ batch' = batch + 1
                /\ ~fetchLog'[Len(fetchLog')].rejected]_vars

\* An invocation returned the records of its first batch after the fetch
\* of its second batch failed.
C26_Witness ==
    /\ colPc = "returned"
    /\ Len(fetchLog) = 2
    /\ fetchLog[2].rejected
    /\ Len(colRet) = MaxFetched
    /\ ReturnedIsPersisted

\* --------------------------------------------------- claims on the drivers

C18_FullCollectsFirst ==
    drvIn.script = "full" =>
        \A k \in 1..Len(runLog) : runLog[k].read = "new"

\* C19: every backtest of the 'force' command reads the data this execution
\* collected in place of the file that was there before.
C19_ForceReplacesFile ==
    drvIn.script = "force" =>
        /\ \A k \in 1..Len(runLog) : runLog[k].read = "new"
        /\ drvPc \in {"running", "done"} => Len(collectLog) = 1

\* -------------------------------------------- claims on two invocations

\* The locals of an invocation that runs alone from the locals f while its
\* strategy gives the answers ans, one after the other.
RECURSIVE Alone(_, _)
Alone(f, ans) ==
    IF ans = << >> \/ ~(f.i < Len(f.candles)) THEN f
    ELSE IF f.currentTrade = NoTrade
    THEN Alone(IF Head(ans) THEN Entered(f) ELSE Skipped(f), Tail(ans))
    ELSE Alone(IF Head(ans) THEN Exited(f) ELSE Skipped(f), Tail(ans))

\* The answers invocation r has acted upon: all of them, but the shouldEnter
\* answer whose execute call has not resolved yet.
ActedUpon(r) ==
    IF runPc[r] = "awaitExecute"
    THEN SubSeq(answers[r], 1, Len(answers[r]) - 1)
    ELSE answers[r]

AloneLocals(r) == Alone(NewLocals(twoStored, twoParams[r]), ActedUpon(r))

\* C11: two runBacktest invocations on one Backtester, each with its own
\* strategy instance, interleaved at their awaits: each one's trade list,
\* open trade, equity, high-water mark and drawdown are at every moment
\* those of the same invocation running alone with the same answers of its
\* strategy, and the result it returns is the one it returns alone.
C11_ConcurrentRunsAreIndependent ==
    \A r \in Runs :
        /\ runPc[r] \in Awaiting \cup {"returned"} =>
               locals[LocalsOf(r)] = AloneLocals(r)
        /\ runPc[r] = "returned" =>
               runResult[r] = calculateResults(AloneLocals(r).trades, Market,
                                               AloneLocals(r).drawdown)

\* Both invocations have returned after steps of one were taken between
\* steps of the other; each closed a trade, and the results differ.
C11_Witness ==
    /\ interleaved
    /\ \A r \in Runs : runPc[r] = "returned" /\ runResult[r].totalTrades = 1
    /\ runResult[1] # runResult[2]
    /\ answers[1] # answers[2]

\* ------------------------------------- claims on a walk with a strategy

\* The decision call that settled last was made on an RsiBollinger instance.
IndicatorDecision ==
    /\ strategy.kind = "RsiBollinger"
    /\ walkLog # << >>
    /\ walkLog[Len(walkLog)].op \in {"shouldEnter", "shouldExit"}

\* C24: across one backtest walk the incremental indicator state of a
\* BaseStrategy-derived strategy receives every candle the engine presents
\* as the current candle, in order and exactly once: after each decision
\* call the indicators have been fed the stored candles 0 .. i, each once,
\* in order, i being the current candle of that call.
C24_IndicatorsSeeEveryCandle ==
    IndicatorDecision =>
        strategy.fed = [k \in 1..(walkLog[Len(walkLog)].index + 1) |-> k - 1]

\* What does hold: the indicators are fed the candles 0 .. lookbackPeriod
\* of the first decision, once and in order, and nothing after them.
C24_IndicatorsSeeFirstWindowOnly ==
    IndicatorDecision =>
        strategy.fed = [k \in 1..(lookbackPeriod + 1) |-> k - 1]

\* Log entry k is a shouldExit call of a TrendBreakout instance that
\* returned true: the strategy exited its position at that candle.
IsExit(k) ==
    /\ strategy.kind = "TrendBreakout"
    /\ walkLog[k].op = "shouldExit" /\ walkLog[k].ret = "true"

\* The candle index of the last exit before log entry k.
LastExitIndex(k) ==
    walkLog[CHOOSE j \in 1..(k - 1) :
                IsExit(j) /\ \A m \in (j + 1)..(k - 1) : ~IsExit(m)].index

\* C27: in a backtest over historical candles, after the TrendBreakout
\* strategy exits a position at candle x its shouldEnter refuses entry at
\* the candles x + 1 .. x + cooldownPeriod, and signals entry again at a
\* later candle whose entry conditions hold (the daily trade count and the
\* consecutive losses being below their limits).
C27_CooldownThenReentry ==
    \A k \in 1..Len(walkLog) :
        (walkLog[k].op = "shouldEnter" /\ \E j \in 1..(k - 1) : IsExit(j)) =>
            LET passed == walkLog[k].index - LastExitIndex(k)
            IN  /\ passed <= cooldownPeriod => walkLog[k].ret = "false"
                /\ (/\ passed > cooldownPeriod
                    /\ walkLog[k].signal
                    /\ walkLog[k].dailyTradeCount < maxDailyTrades
                    /\ walkLog[k].consecutiveLosses < consecutiveLossLimit)
                      => walkLog[k].ret = "true"

\* What does hold: after its first exit the strategy refuses every entry
\* for the rest of the walk.
C27_NoEntryAfterAnExit ==
    \A k \in 1..Len(walkLog) :
        (walkLog[k].op = "shouldEnter" /\ \E j \in 1..(k - 1) : IsExit(j)) =>
            walkLog[k].ret = "false"

\* C30: the engine opens a Trade at every NO_POSITION step where
\* shouldEnter returned true and execute resolved, whatever execute did:
\* when RsiBollinger.execute returns early because the stop-loss risk is
\* above 5%, or swallows a failure of executeOrders, it resolves and the
\* engine records an entry at the current candle's close.
C30_EntryWhateverExecuteDid ==
    [][(/\ Len(walkLog') = Len(walkLog) + 1
        /\ walkLog'[Len(walkLog')].op = "execute") =>
          LET e == walkLog'[Len(walkLog')]
          IN  /\ walkLog[Len(walkLog)].op = "shouldEnter"
              /\ walkLog[Len(walkLog)].ret = "true"
              /\ walkLog[Len(walkLog)].index = e.index
              /\ walk.currentTrade = NoTrade
              /\ e.ret = "void" =>
                     walk'.currentTrade =
                         [entryTime |-> WalkCandle(e.index).timestamp,
                          entryPrice |-> WalkCandle(e.index).close,
                          side |-> "long"]
              /\ (strategy.kind = "RsiBollinger"
                    /\ e.did \in {"riskTooHigh", "ordersFailed"}) =>
                        /\ e.ret = "void"
                        /\ walk'.currentTrade # NoTrade
                        /\ walk'.currentTrade.entryPrice = WalkCandle(e.index).close]_vars

\* In one walk RsiBollinger.execute cancelled an entry for its risk and
\* later swallowed an order failure, and the engine holds the trade it
\* opened at that candle.
C30_Witness ==
    /\ strategy.kind = "RsiBollinger"
    /\ \E k \in 1..Len(walkLog) :
           walkLog[k].op = "execute" /\ walkLog[k].did = "riskTooHigh"
    /\ walkLog # << >>
    /\ walkLog[Len(walkLog)].op = "execute"
    /\ walkLog[Len(walkLog)].did = "ordersFailed"
    /\ walk.currentTrade # NoTrade
    /\ walk.currentTrade.entryTime = WalkCandle(walk.i - 1).timestamp
    /\ walk.nTrades = 1

====
